---- MODULE Spec2Model ----
(***************************************************************************)
(* Coordination server of the gorcery repository: store registry, catalog  *)
(* aggregation and order relay.  The repository holds three variants of    *)
(* the same server:                                                        *)
(*   "main" = src/main-server.js    (10 minute liveness threshold)         *)
(*   "p0"   = src/unnamed/part_000  (10 minute liveness threshold)         *)
(*   "p1"   = src/unnamed/part_001  ( 5 minute liveness threshold)         *)
(* Every handler is an async function: it runs from one await to the next  *)
(* without interruption, and other handlers run in between.  One action of *)
(* the model is one such run; a request slot holds the handler's locals.   *)
(* Records are functions from field names to values, so that an absent     *)
(* field is a name outside the DOMAIN.  Instants are milliseconds.         *)
(***************************************************************************)
EXTENDS Integers, Sequences, FiniteSets, TLC

VARIABLES
    variant,        \* which of the three server files is running
    clock,          \* Date.now(), in milliseconds
    ticks,          \* how many times the clock has advanced
    started,        \* how many requests have been accepted
    storesFile,     \* contents of ./data/stores.json
    productsFile,   \* contents of ./data/products.json
    fetchCount,     \* successful product fetches so far (numbers the generations)
    ordersFile,     \* contents of ./data/orders.json
    forwards,       \* how many orders have been POSTed to their origin store
    req,            \* request slot -> the locals of the handler running in it
    regDone,        \* history: lastSeen stamp of the last answered register of store Watched
    overlapped,     \* history: some request was accepted while another was in flight
    serial,         \* the client awaits each answer before it sends the next request
    limit           \* how many requests the client sends

vars == <<variant, clock, ticks, started, storesFile, productsFile, fetchCount,
          ordersFile, forwards, req, regDone, overlapped, serial, limit>>

\* what the registry and catalog handlers never touch
orderVars == <<ordersFile, forwards>>

----------------------------------------------------------------------------
(* Bounds of the model *)

MaxRequests == 2
MaxSeqRequests == 4
MaxTicks == 1
MaxRelayRequests == 3

Variants == {"main", "p0", "p1"}
Slots == {1, 2}
StoreIds == {"A", "B"}

\* the store whose answered registrations the history variable follows
Watched == "A"

----------------------------------------------------------------------------
(* Program constants *)

MsPerMinute == 60000

ThresholdMinutes(v) == IF v = "p1" THEN 5 ELSE 10

ThresholdMs(v) == ThresholdMinutes(v) * MsPerMinute

----------------------------------------------------------------------------
(* JavaScript objects *)

Undefined == "undefined"

Get(rec, k) == IF k \in DOMAIN rec THEN rec[k] ELSE Undefined

Has(rec, k) == k \in DOMAIN rec

Put(rec, k, v) == [x \in (DOMAIN rec) \cup {k} |-> IF x = k THEN v ELSE rec[x]]

\* { ...old, ...new } written the wrong way round: old values win
MergeOldWins(old, new) ==
    [k \in (DOMAIN old) \cup (DOMAIN new) |-> IF k \in DOMAIN old THEN old[k] ELSE new[k]]

\* { ...old, ...new }
Merge(old, new) ==
    [k \in (DOMAIN old) \cup (DOMAIN new) |-> IF k \in DOMAIN new THEN new[k] ELSE old[k]]

\* a findIndex that never finds
FindIndexNever(seq, id) == -1

\* seq.findIndex(s => s.storeId === id): 0-based, -1 when there is none
FindIndex(seq, id) ==
    IF \E i \in 1..Len(seq) : Get(seq[i], "storeId") = id
    THEN (CHOOSE i \in 1..Len(seq) :
              /\ Get(seq[i], "storeId") = id
              /\ \A j \in 1..(i - 1) : Get(seq[j], "storeId") # id) - 1
    ELSE -1

\* an assignment that keeps the assigned element only
SetAtDropRest(seq, idx, rec) == <<rec>>

\* seq[idx] = rec  (idx 0-based)
SetAt(seq, idx, rec) == [seq EXCEPT ![idx + 1] = rec]

\* a liveness test with the comparison turned round
IsOnlineReversed(v, now, lastSeen) == (now - lastSeen) > ThresholdMs(v)

\* a liveness test that counts the boundary as online
IsOnlineInclusive(v, now, lastSeen) == (now - lastSeen) <= ThresholdMs(v)

\* minutesAgo = (now - lastSeen) / (1000 * 60);  minutesAgo < threshold
IsOnline(v, now, lastSeen) == (now - lastSeen) < ThresholdMs(v)

StatusOf(v, now, lastSeen) == IF IsOnline(v, now, lastSeen) THEN "online" ELSE "offline"

----------------------------------------------------------------------------
(* Request bodies the clients send *)

RegisterBodies ==
    { [storeId |-> "A", name |-> "n1", url |-> "http://a"],
      [storeId |-> "A", name |-> "n2", url |-> "http://a", extra |-> "x1"],
      [storeId |-> "B", name |-> "n1", url |-> "http://b"],
      [name |-> "n1", url |-> "http://a"] }

ManualAddBodies ==
    { [storeId |-> "A", name |-> "n3", url |-> "http://a"] }

----------------------------------------------------------------------------
(* Request slots *)

Idle == [op |-> "idle", pc |-> "done"]

InFlight(r) == req[r].pc # "done"

\* A new request takes the lowest free slot; under `serial` it waits for
\* every earlier request to be answered.
CanStart(r) ==
    /\ ~InFlight(r)
    /\ \A q \in Slots : q < r => InFlight(q)
    /\ started < limit
    /\ serial => \A q \in Slots : ~InFlight(q)

\* The request is accepted into slot r
Accept(r) ==
    /\ CanStart(r)
    /\ started' = started + 1
    /\ overlapped' = (overlapped \/ \E q \in Slots : InFlight(q))

\* A handler that returns an error status before its first await: it answers
\* within the run that accepted the request and leaves nothing behind.
Reject(r, op, status) == UNCHANGED req

\* res.json(...) has been called: the handler is over and its locals are gone
Release(r) == req' = [req EXCEPT ![r] = Idle]

----------------------------------------------------------------------------
(* POST /api/stores/register *)

RegisterValid(v, body) ==
    CASE v = "main" -> Has(body, "storeId") /\ Has(body, "name")
      [] v = "p0"   -> Has(body, "storeId") /\ Has(body, "name") /\ Has(body, "url")
      [] v = "p1"   -> TRUE

\* storeInfo = req.body with lastSeen, status (and registeredAt) assigned
RegisterStamp(v, body, now) ==
    LET s == Put(Put(body, "lastSeen", now), "status", "online")
    IN  CASE v = "main" -> Put(s, "registeredAt", now)
          [] v = "p0"   -> Put(s, "registeredAt",
                               IF Has(body, "registeredAt") THEN body["registeredAt"] ELSE now)
          [] v = "p1"   -> s

\* a registration that starts the stores array over
RegisterApplyAlone(stores, storeInfo) == <<storeInfo>>

\* a registration that updates known stores and adds none
RegisterApplyKnownOnly(stores, storeInfo) ==
    LET existingIndex == FindIndex(stores, Get(storeInfo, "storeId"))
    IN  IF existingIndex > -1
        THEN SetAt(stores, existingIndex, Merge(stores[existingIndex + 1], storeInfo))
        ELSE stores

\* the stores array after the if/else on existingIndex
RegisterApply(stores, storeInfo) ==
    LET existingIndex == FindIndex(stores, Get(storeInfo, "storeId"))
    IN  IF existingIndex > -1
        THEN SetAt(stores, existingIndex, Merge(stores[existingIndex + 1], storeInfo))
        ELSE Append(stores, storeInfo)

RegisterStart(r, body) ==
    /\ Accept(r)
    /\ IF RegisterValid(variant, body)
       THEN req' = [req EXCEPT ![r] =
                       [op |-> "register", pc |-> "read", body |-> body,
                        storeInfo |-> RegisterStamp(variant, body, clock)]]
       ELSE Reject(r, "register", 400)
    /\ UNCHANGED <<orderVars, variant, limit, clock, ticks, storesFile, productsFile, fetchCount,
                   regDone, serial>>

RegisterRead(r) ==
    /\ req[r].op = "register" /\ req[r].pc = "read"
    /\ req' = [req EXCEPT ![r] = Put(Put(req[r], "stores", storesFile), "pc", "write")]
    /\ UNCHANGED <<orderVars, variant, limit, clock, ticks, started, storesFile, productsFile, fetchCount,
                   regDone, overlapped, serial>>

\* part_001 probes {url}/api/debug after the write and reports the outcome;
\* the other two variants do not probe
Connectivity(v, storeInfo) ==
    CASE v # "p1"               -> {"none"}
      [] Has(storeInfo, "url")  -> {"good", "poor", "failed"}
      [] OTHER                  -> {"failed"}

\* The write and, in part_001, the probe that follows it: the probe touches
\* no file, so its outcome is drawn here and reported by the answer.
RegisterWrite(r) ==
    /\ req[r].op = "register" /\ req[r].pc = "write"
    /\ LET updated == RegisterApply(req[r].stores, req[r].storeInfo)
       IN  /\ storesFile' = updated
           /\ \E c \in Connectivity(variant, req[r].storeInfo) :
                  req' = [req EXCEPT ![r] =
                             Put(Put(Put(req[r], "written", updated),
                                     "connectivity", c), "pc", "respond")]
    /\ UNCHANGED <<orderVars, variant, limit, clock, ticks, started, productsFile, fetchCount,
                   regDone, overlapped, serial>>

\* the body of the answer a register handler at its res.json sends
RegisterResponse(v, l) ==
    CASE v = "p1"       -> [status |-> 200,
                            store |-> Put(l.storeInfo, "connectivity", l.connectivity)]
      [] OTHER          -> [status |-> 200, store |-> l.storeInfo,
                            totalStores |-> Len(l.written)]

RegisterRespond(r) ==
    /\ req[r].op = "register" /\ req[r].pc = "respond"
    /\ Release(r)
    /\ regDone' = IF Get(req[r].storeInfo, "storeId") = Watched
                  THEN req[r].storeInfo["lastSeen"]
                  ELSE regDone
    /\ UNCHANGED <<orderVars, variant, limit, clock, ticks, started, storesFile, productsFile, fetchCount,
                   overlapped, serial>>

----------------------------------------------------------------------------
(* POST /api/stores/manual-add *)

ManualAddValid(v, body) ==
    IF v = "main"
    THEN Has(body, "storeId") /\ Has(body, "name")
    ELSE Has(body, "storeId") /\ Has(body, "name") /\ Has(body, "url")

\* the object literal built from the destructured body
ManualAddInfo(v, body, now) ==
    LET base == [storeId  |-> body["storeId"],
                 name     |-> body["name"],
                 location |-> IF Has(body, "location") THEN body["location"]
                              ELSE "Unknown Location",
                 url      |-> IF Has(body, "url") THEN body["url"]
                              ELSE "http://localhost:3000",
                 lastSeen |-> now,
                 status   |-> "online"]
    IN  IF v = "p0" THEN Put(base, "addedManually", TRUE) ELSE base

\* a manual add that merges into the old record, as register does
ManualAddSlotMerged(old, storeInfo) == Merge(old, storeInfo)

\* stores[existingIndex] = storeInfo
ManualAddSlot(old, storeInfo) == storeInfo

ManualAddApply(stores, storeInfo) ==
    LET existingIndex == FindIndex(stores, storeInfo["storeId"])
    IN  IF existingIndex > -1
        THEN SetAt(stores, existingIndex, ManualAddSlot(stores[existingIndex + 1], storeInfo))
        ELSE Append(stores, storeInfo)

ManualAddStart(r, body) ==
    /\ Accept(r)
    /\ IF ManualAddValid(variant, body)
       THEN req' = [req EXCEPT ![r] =
                       [op |-> "manualAdd", pc |-> "read", body |-> body,
                        storeInfo |-> ManualAddInfo(variant, body, clock)]]
       ELSE Reject(r, "manualAdd", 400)
    /\ UNCHANGED <<orderVars, variant, limit, clock, ticks, storesFile, productsFile, fetchCount,
                   regDone, serial>>

ManualAddRead(r) ==
    /\ req[r].op = "manualAdd" /\ req[r].pc = "read"
    /\ req' = [req EXCEPT ![r] = Put(Put(req[r], "stores", storesFile), "pc", "write")]
    /\ UNCHANGED <<orderVars, variant, limit, clock, ticks, started, storesFile, productsFile, fetchCount,
                   regDone, overlapped, serial>>

ManualAddWrite(r) ==
    /\ req[r].op = "manualAdd" /\ req[r].pc = "write"
    /\ LET updated == ManualAddApply(req[r].stores, req[r].storeInfo)
       IN  /\ storesFile' = updated
           /\ req' = [req EXCEPT ![r] = Put(Put(req[r], "written", updated), "pc", "respond")]
    /\ UNCHANGED <<orderVars, variant, limit, clock, ticks, started, productsFile, fetchCount,
                   regDone, overlapped, serial>>

ManualAddResponse(l) == [status |-> 200, store |-> l.storeInfo]

ManualAddRespond(r) ==
    /\ req[r].op = "manualAdd" /\ req[r].pc = "respond"
    /\ Release(r)
    /\ UNCHANGED <<orderVars, variant, limit, clock, ticks, started, storesFile, productsFile, fetchCount,
                   regDone, overlapped, serial>>

----------------------------------------------------------------------------
(* GET /api/stores *)

\* Math.floor(minutesAgo)
FloorMinutes(now, lastSeen) == (now - lastSeen) \div MsPerMinute

\* the body of stores.forEach
Refresh(v, now, store) ==
    LET s == Put(store, "status", StatusOf(v, now, store["lastSeen"]))
    IN  IF v = "p0"
        THEN Put(s, "lastSeenMinutes", FloorMinutes(now, store["lastSeen"]))
        ELSE s

\* a refresh that drops the stores it finds offline
RefreshAllDropOffline(v, now, stores) ==
    SelectSeq([i \in 1..Len(stores) |-> Refresh(v, now, stores[i])],
              LAMBDA s : s["status"] = "online")

RefreshAll(v, now, stores) == [i \in 1..Len(stores) |-> Refresh(v, now, stores[i])]

\* the request is accepted and the stores file read
ListRead(r) ==
    /\ Accept(r)
    /\ req' = [req EXCEPT ![r] =
                  [op |-> "list", pc |-> "compute", stores |-> storesFile]]
    /\ UNCHANGED <<orderVars, variant, limit, clock, ticks, storesFile, productsFile, fetchCount,
                   regDone, serial>>

\* now = new Date(); stores.forEach(...)
ListCompute(r) ==
    /\ req[r].op = "list" /\ req[r].pc = "compute"
    /\ req' = [req EXCEPT ![r] =
                  Put(Put(Put(req[r], "now", clock),
                          "updated", RefreshAll(variant, clock, req[r].stores)),
                      "pc", "write")]
    /\ UNCHANGED <<orderVars, variant, limit, clock, ticks, started, storesFile, productsFile, fetchCount,
                   regDone, overlapped, serial>>

ListWrite(r) ==
    /\ req[r].op = "list" /\ req[r].pc = "write"
    /\ storesFile' = req[r].updated
    /\ req' = [req EXCEPT ![r] = Put(Put(req[r], "written", req[r].updated), "pc", "respond")]
    /\ UNCHANGED <<orderVars, variant, limit, clock, ticks, started, productsFile, fetchCount,
                   regDone, overlapped, serial>>

\* res.json(stores)
ListResponse(l) == [status |-> 200, stores |-> l.updated]

ListRespond(r) ==
    /\ req[r].op = "list" /\ req[r].pc = "respond"
    /\ Release(r)
    /\ UNCHANGED <<orderVars, variant, limit, clock, ticks, started, storesFile, productsFile, fetchCount,
                   regDone, overlapped, serial>>

----------------------------------------------------------------------------
(* The clock *)

\* The clock advances by a millisecond or by the liveness threshold, so that
\* gaps below, at and (with two ticks) above the threshold occur.
TickSteps(v) == {1, ThresholdMs(v)}

Tick ==
    /\ ticks < MaxTicks
    /\ \E d \in TickSteps(variant) : clock' = clock + d
    /\ ticks' = ticks + 1
    /\ UNCHANGED <<orderVars, variant, limit, started, storesFile, productsFile, fetchCount,
                   req, regDone, overlapped, serial>>

----------------------------------------------------------------------------
(* The registry under concurrent requests *)

InitCommon ==
    /\ variant \in Variants
    /\ clock = 0
    /\ ticks = 0
    /\ started = 0
    /\ productsFile = <<>>
    /\ fetchCount = 0
    /\ ordersFile = <<>>
    /\ forwards = 0
    /\ req = [r \in Slots |-> Idle]
    /\ regDone = -1
    /\ overlapped = FALSE

\* ensureDataDir leaves three empty arrays on first run
Init ==
    /\ InitCommon
    /\ storesFile = <<>>
    /\ serial = FALSE
    /\ limit = MaxRequests

Next ==
    \/ \E r \in Slots, body \in RegisterBodies : RegisterStart(r, body)
    \/ \E r \in Slots : RegisterRead(r)
    \/ \E r \in Slots : RegisterWrite(r)
    \/ \E r \in Slots : RegisterRespond(r)
    \/ \E r \in Slots, body \in ManualAddBodies : ManualAddStart(r, body)
    \/ \E r \in Slots : ManualAddRead(r)
    \/ \E r \in Slots : ManualAddWrite(r)
    \/ \E r \in Slots : ManualAddRespond(r)
    \/ \E r \in Slots : ListRead(r)
    \/ \E r \in Slots : ListCompute(r)
    \/ \E r \in Slots : ListWrite(r)
    \/ \E r \in Slots : ListRespond(r)
    \/ Tick

Spec == Init /\ [][Next]_vars

\* the same server with a client that sends one request at a time
SeqInit ==
    /\ InitCommon
    /\ storesFile = <<>>
    /\ serial = TRUE
    /\ limit = MaxSeqRequests

SeqSpec == SeqInit /\ [][Next]_vars

----------------------------------------------------------------------------
(* The remote stores' catalogs *)

Product(id, name, category, rev) ==
    [storeId |-> id, name |-> name, category |-> category, rev |-> rev]

\* What GET {url}/api/products of store id may answer with: no product, or
\* its own products, each carrying the store's id; rev tells one answer from
\* the next.
RemoteCatalogs(id, rev) ==
    { <<>>,
      <<Product(id, "Blue Shirt", "clothing", rev), Product(id, "Red Hat", "hats", rev)>> }

\* fetch rejects, or response.ok is false
FetchFailures == {"throws", "notOk"}

\* a store record without url makes fetch("undefined/api/products") reject
CanAnswer(store) == Has(store, "url")

\* a filter that forgets every record
FilterOutAll(products, id) == <<>>

\* a filter that removes nothing
FilterOutNone(products, id) == products

\* allProducts.filter(p => p.storeId !== storeId)
FilterOut(products, id) == SelectSeq(products, LAMBDA p : Get(p, "storeId") # id)

\* [...otherStoreProducts, ...products]
Replaced(allProducts, id, products) == FilterOut(allProducts, id) \o products

\* a lookup that finds nothing
FoundNever(stores, id) == FALSE

\* stores.find(s => s.storeId === storeId): Found tells whether it is defined
Found(stores, id) == FindIndex(stores, id) > -1

Find(stores, id) == stores[FindIndex(stores, id) + 1]

----------------------------------------------------------------------------
(* POST /api/stores/:storeId/sync-products *)

SyncIds == StoreIds \cup {"Z"}

\* the request is accepted, the stores file read and the store looked up
SyncOneReadStores(r, id) ==
    /\ Accept(r)
    /\ req' = [req EXCEPT ![r] =
                  IF ~Found(storesFile, id)
                  THEN [op |-> "syncOne", pc |-> "respond", status |-> 404, storeId |-> id]
                  ELSE [op |-> "syncOne", pc |-> "fetch", status |-> 200, storeId |-> id,
                        store |-> Find(storesFile, id)]]
    /\ UNCHANGED <<orderVars, variant, limit, clock, ticks, storesFile, productsFile, fetchCount,
                   regDone, serial>>

SyncOneFetchFails(r) ==
    /\ req[r].op = "syncOne" /\ req[r].pc = "fetch"
    /\ \E why \in FetchFailures : why = "throws" \/ CanAnswer(req[r].store)
    /\ req' = [req EXCEPT ![r] = [op |-> "syncOne", pc |-> "respond", status |-> 500,
                                  storeId |-> req[r].storeId]]
    /\ UNCHANGED <<orderVars, variant, limit, clock, ticks, started, storesFile, productsFile, fetchCount,
                   regDone, overlapped, serial>>

\* the store answers and response.json() yields its products
SyncOneFetch(r) ==
    /\ req[r].op = "syncOne" /\ req[r].pc = "fetch"
    /\ CanAnswer(req[r].store)
    /\ fetchCount' = fetchCount + 1
    /\ \E products \in RemoteCatalogs(req[r].storeId, fetchCount + 1) :
          req' = [req EXCEPT ![r] = Put(Put(req[r], "products", products),
                                        "pc", "readProducts")]
    /\ UNCHANGED <<orderVars, variant, limit, clock, ticks, started, storesFile, productsFile,
                   regDone, overlapped, serial>>

SyncOneReadProducts(r) ==
    /\ req[r].op = "syncOne" /\ req[r].pc = "readProducts"
    /\ req' = [req EXCEPT ![r] = Put(Put(req[r], "allProducts", productsFile), "pc", "write")]
    /\ UNCHANGED <<orderVars, variant, limit, clock, ticks, started, storesFile, productsFile, fetchCount,
                   regDone, overlapped, serial>>

\* before is history: the products file as this write found it
SyncOneWrite(r) ==
    /\ req[r].op = "syncOne" /\ req[r].pc = "write"
    /\ LET updatedProducts == Replaced(req[r].allProducts, req[r].storeId, req[r].products)
       IN  /\ productsFile' = updatedProducts
           /\ req' = [req EXCEPT ![r] =
                         Put(Put(Put(req[r], "written", updatedProducts),
                                 "before", productsFile), "pc", "respond")]
    /\ UNCHANGED <<orderVars, variant, limit, clock, ticks, started, storesFile, fetchCount,
                   regDone, overlapped, serial>>

SyncOneResponse(l) ==
    CASE l.status = 404 -> [status |-> 404]
      [] l.status = 500 -> [status |-> 500]
      [] OTHER -> [status |-> 200, productsCount |-> Len(l.products),
                   store |-> Get(l.store, "name")]

SyncOneRespond(r) ==
    /\ req[r].op = "syncOne" /\ req[r].pc = "respond"
    /\ Release(r)
    /\ UNCHANGED <<orderVars, variant, limit, clock, ticks, started, storesFile, productsFile, fetchCount,
                   regDone, overlapped, serial>>

----------------------------------------------------------------------------
(* POST /api/stores/sync-all  (part_000 and part_001) *)

\* stores.filter(s => s.status === 'online')
OnlineStores(stores) == SelectSeq(stores, LAMBDA s : Get(s, "status") = "online")

\* where the for loop stands once the store at idx is dealt with
LoopPc(l) == IF l.idx >= Len(l.onlineStores) THEN "respond" ELSE "fetch"

\* a loop that a failing store ends
AfterFailureAbort(l) ==
    [op |-> "syncAll", pc |-> "respond", onlineStores |-> l.onlineStores,
     idx |-> l.idx + 1, totalProducts |-> l.totalProducts,
     syncedStores |-> l.syncedStores, now |-> l.now,
     log |-> Append(l.log, [storeId |-> Get(l.onlineStores[l.idx], "storeId"), ok |-> FALSE])]

\* the catch block, or the skipped if (response.ok): on to the next store
AfterFailure(l) ==
    [op |-> "syncAll", pc |-> LoopPc(l), onlineStores |-> l.onlineStores,
     idx |-> l.idx + 1, totalProducts |-> l.totalProducts,
     syncedStores |-> l.syncedStores, now |-> l.now,
     log |-> Append(l.log, [storeId |-> Get(l.onlineStores[l.idx], "storeId"), ok |-> FALSE])]

\* now and log are history: the instant of the read, and what became of each
\* store the loop has dealt with
SyncAllReadStores(r) ==
    /\ variant \in {"p0", "p1"}
    /\ Accept(r)
    /\ LET onlineStores == OnlineStores(storesFile)
       IN  req' = [req EXCEPT ![r] =
                      [op |-> "syncAll",
                       pc |-> IF Len(onlineStores) = 0 THEN "respond" ELSE "fetch",
                       stores |-> storesFile,
                       onlineStores |-> onlineStores, idx |-> 1,
                       totalProducts |-> 0, syncedStores |-> 0,
                       now |-> clock, log |-> <<>>]]
    /\ UNCHANGED <<orderVars, variant, limit, clock, ticks, storesFile, productsFile, fetchCount,
                   regDone, serial>>

SyncAllFetchFails(r) ==
    /\ req[r].op = "syncAll" /\ req[r].pc = "fetch"
    /\ \E why \in FetchFailures : why = "throws" \/ CanAnswer(req[r].onlineStores[req[r].idx])
    /\ req' = [req EXCEPT ![r] = Put(AfterFailure(req[r]), "stores", req[r].stores)]
    /\ UNCHANGED <<orderVars, variant, limit, clock, ticks, started, storesFile, productsFile, fetchCount,
                   regDone, overlapped, serial>>

SyncAllFetch(r) ==
    /\ req[r].op = "syncAll" /\ req[r].pc = "fetch"
    /\ CanAnswer(req[r].onlineStores[req[r].idx])
    /\ fetchCount' = fetchCount + 1
    /\ \E products \in RemoteCatalogs(Get(req[r].onlineStores[req[r].idx], "storeId"),
                                      fetchCount + 1) :
          req' = [req EXCEPT ![r] =
                     [op |-> "syncAll", pc |-> "readProducts", stores |-> req[r].stores,
                      onlineStores |-> req[r].onlineStores, idx |-> req[r].idx,
                      totalProducts |-> req[r].totalProducts,
                      syncedStores |-> req[r].syncedStores,
                      now |-> req[r].now, log |-> req[r].log,
                      products |-> products]]
    /\ UNCHANGED <<orderVars, variant, limit, clock, ticks, started, storesFile, productsFile,
                   regDone, overlapped, serial>>

SyncAllReadProducts(r) ==
    /\ req[r].op = "syncAll" /\ req[r].pc = "readProducts"
    /\ req' = [req EXCEPT ![r] = Put(Put(req[r], "allProducts", productsFile), "pc", "write")]
    /\ UNCHANGED <<orderVars, variant, limit, clock, ticks, started, storesFile, productsFile, fetchCount,
                   regDone, overlapped, serial>>

SyncAllWrite(r) ==
    /\ req[r].op = "syncAll" /\ req[r].pc = "write"
    /\ LET l == req[r]
           id == Get(l.onlineStores[l.idx], "storeId")
           updatedProducts == Replaced(l.allProducts, id, l.products)
       IN  /\ productsFile' = updatedProducts
           /\ req' = [req EXCEPT ![r] =
                         [op |-> "syncAll", pc |-> LoopPc(l), stores |-> l.stores,
                          onlineStores |-> l.onlineStores, idx |-> l.idx + 1,
                          totalProducts |-> l.totalProducts + Len(l.products),
                          syncedStores |-> l.syncedStores + 1,
                          now |-> l.now,
                          log |-> Append(l.log, [storeId |-> id, ok |-> TRUE,
                                                 products |-> l.products]),
                          products |-> l.products, allProducts |-> l.allProducts,
                          written |-> updatedProducts]]
    /\ UNCHANGED <<orderVars, variant, limit, clock, ticks, started, storesFile, fetchCount,
                   regDone, overlapped, serial>>

SyncAllResponse(l) ==
    [status |-> 200, syncedStores |-> l.syncedStores, totalProducts |-> l.totalProducts]

SyncAllRespond(r) ==
    /\ req[r].op = "syncAll" /\ req[r].pc = "respond"
    /\ Release(r)
    /\ UNCHANGED <<orderVars, variant, limit, clock, ticks, started, storesFile, productsFile, fetchCount,
                   regDone, overlapped, serial>>

----------------------------------------------------------------------------
(* The catalog, with stores A and B registered when the clock read 0 *)

RegisteredStores(v) ==
    RegisterApply(
        RegisterApply(<<>>, RegisterStamp(v, [storeId |-> "A", name |-> "n1",
                                              url |-> "http://a"], 0)),
        RegisterStamp(v, [storeId |-> "B", name |-> "n1", url |-> "http://b"], 0))

SyncInit ==
    /\ InitCommon
    /\ storesFile = RegisteredStores(variant)
    /\ serial = FALSE
    /\ limit = MaxRequests

SyncNext ==
    \/ \E r \in Slots, id \in SyncIds : SyncOneReadStores(r, id)
    \/ \E r \in Slots : SyncOneFetchFails(r)
    \/ \E r \in Slots : SyncOneFetch(r)
    \/ \E r \in Slots : SyncOneReadProducts(r)
    \/ \E r \in Slots : SyncOneWrite(r)
    \/ \E r \in Slots : SyncOneRespond(r)
    \/ \E r \in Slots : SyncAllReadStores(r)
    \/ \E r \in Slots : SyncAllFetchFails(r)
    \/ \E r \in Slots : SyncAllFetch(r)
    \/ \E r \in Slots : SyncAllReadProducts(r)
    \/ \E r \in Slots : SyncAllWrite(r)
    \/ \E r \in Slots : SyncAllRespond(r)

SyncSpec == SyncInit /\ [][SyncNext]_vars

\* The catalog and the store list with a client that sends one request at a
\* time, while the clock advances.
SyncSeqInit ==
    /\ InitCommon
    /\ storesFile = RegisteredStores(variant)
    /\ serial = TRUE
    /\ limit = MaxSeqRequests

SyncSeqNext ==
    \/ SyncNext
    \/ \E r \in Slots : ListRead(r)
    \/ \E r \in Slots : ListCompute(r)
    \/ \E r \in Slots : ListWrite(r)
    \/ \E r \in Slots : ListRespond(r)
    \/ Tick

SyncSeqSpec == SyncSeqInit /\ [][SyncSeqNext]_vars

----------------------------------------------------------------------------
(* What a handler that has just written holds: the snapshot it read      *)
(* (stores), the object it merged in (storeInfo) and the array it wrote  *)
(* (written).                                                            *)

Wrote(r, op) == req[r].op = op /\ req[r].pc = "respond"

\* 1-based position in the snapshot of the record the request is about, 0 if none
PosOf(r) ==
    LET id == Get(req[r].storeInfo, "storeId")
        hits == {i \in 1..Len(req[r].stores) : Get(req[r].stores[i], "storeId") = id}
    IN  IF hits = {} THEN 0 ELSE CHOOSE i \in hits : \A j \in hits : i <= j

----------------------------------------------------------------------------
(* C1: after a re-registration of a storeId whose record carries a        *)
(* registeredAt, the record written back still carries that registeredAt  *)
(* (the request body supplying none of its own).                          *)
C1_RegisteredAtPreserved ==
    \A r \in Slots :
        (/\ Wrote(r, "register")
         /\ PosOf(r) > 0
         /\ Has(req[r].stores[PosOf(r)], "registeredAt")
         /\ ~Has(req[r].body, "registeredAt"))
        => /\ Has(req[r].written[PosOf(r)], "registeredAt")
           /\ req[r].written[PosOf(r)]["registeredAt"]
                  = req[r].stores[PosOf(r)]["registeredAt"]

(* C2: no two records of the stores collection have the same storeId,     *)
(* whatever the interleaving of register, manualAdd and list requests.    *)
C2_StoreIdUnique ==
    \A i, j \in 1..Len(storesFile) :
        i # j => Get(storesFile[i], "storeId") # Get(storesFile[j], "storeId")

\* two registrations of one storeId that both read the file before either wrote it
C2_Witness ==
    /\ Wrote(1, "register") /\ Wrote(2, "register")
    /\ Get(req[1].storeInfo, "storeId") = Get(req[2].storeInfo, "storeId")
    /\ PosOf(1) = 0 /\ PosOf(2) = 0
    /\ Len(storesFile) = 1

(* C3: register on a known storeId writes back the snapshot with that one *)
(* record shallow-merged: every key of storeInfo (the body as the handler *)
(* stamped it) has storeInfo's value, every other key of the old record   *)
(* its old value, the record keeps its position and no other record       *)
(* changes; on an unknown storeId it appends exactly storeInfo.           *)
C3_RegisterMerges ==
    \A r \in Slots :
        Wrote(r, "register") =>
            LET old == req[r].stores
                new == req[r].written
                info == req[r].storeInfo
                p == PosOf(r)
            IN  IF p > 0
                THEN /\ Len(new) = Len(old)
                     /\ \A i \in 1..Len(old) : i # p => new[i] = old[i]
                     /\ DOMAIN new[p] = (DOMAIN old[p]) \cup (DOMAIN info)
                     /\ \A k \in DOMAIN info : new[p][k] = info[k]
                     /\ \A k \in (DOMAIN old[p]) \ (DOMAIN info) : new[p][k] = old[p][k]
                ELSE /\ Len(new) = Len(old) + 1
                     /\ \A i \in 1..Len(old) : new[i] = old[i]
                     /\ new[Len(new)] = info

\* a re-registration among two records that overwrites the name and keeps a
\* field the new body does not carry
C3_Witness ==
    \E r \in Slots :
        /\ Wrote(r, "register")
        /\ PosOf(r) > 0
        /\ Len(req[r].stores) = 2
        /\ Has(req[r].stores[PosOf(r)], "extra")
        /\ ~Has(req[r].storeInfo, "extra")
        /\ req[r].stores[PosOf(r)]["name"] # req[r].storeInfo["name"]

(* C4: manualAdd on a known storeId replaces the record wholesale: the    *)
(* record written has exactly the fields storeId, name, location, url,    *)
(* lastSeen, status (and addedManually in part_000), built from the body; *)
(* no other field of the previous record survives.                        *)
C4_ManualAddReplaces ==
    \A r \in Slots :
        (Wrote(r, "manualAdd") /\ PosOf(r) > 0) =>
            LET old == req[r].stores[PosOf(r)]
                new == req[r].written[PosOf(r)]
                fields == {"storeId", "name", "location", "url", "lastSeen", "status"}
                              \cup (IF variant = "p0" THEN {"addedManually"} ELSE {})
            IN  /\ DOMAIN new = fields
                /\ new["storeId"] = req[r].body["storeId"]
                /\ new["name"] = req[r].body["name"]
                /\ new["status"] = "online"
                /\ new["lastSeen"] <= clock
                /\ \A k \in (DOMAIN old) \ fields : ~Has(new, k)

\* a manual add over a record that carried registeredAt and a caller's extra field
C4_Witness ==
    \E r \in Slots :
        /\ Wrote(r, "manualAdd")
        /\ PosOf(r) > 0
        /\ Has(req[r].stores[PosOf(r)], "registeredAt")
        /\ Has(req[r].stores[PosOf(r)], "extra")

(* C5: list writes back, and answers with, the records it read, each with *)
(* status online iff now - lastSeen is strictly below the liveness        *)
(* threshold and offline otherwise; a gap of exactly the threshold is     *)
(* offline.                                                               *)
C5_ListStatus ==
    \A r \in Slots :
        Wrote(r, "list") =>
            /\ Len(req[r].written) = Len(req[r].stores)
            /\ ListResponse(req[r]).stores = req[r].written
            /\ \A i \in 1..Len(req[r].written) :
                  LET s == req[r].written[i]
                      gap == req[r].now - s["lastSeen"]
                  IN  /\ s["lastSeen"] = req[r].stores[i]["lastSeen"]
                      /\ Get(s, "storeId") = Get(req[r].stores[i], "storeId")
                      /\ s["status"] = (IF gap < ThresholdMinutes(variant) * MsPerMinute
                                        THEN "online" ELSE "offline")

\* a list that found one store exactly at the threshold and another below it
C5_Witness ==
    \E r \in Slots :
        /\ Wrote(r, "list")
        /\ \E i \in 1..Len(req[r].written) :
              /\ req[r].now - req[r].written[i]["lastSeen"] = ThresholdMs(variant)
              /\ req[r].written[i]["status"] = "offline"
        /\ \E i \in 1..Len(req[r].written) : req[r].written[i]["status"] = "online"

\* the list at slot r reports the watched store online and writes it back with
\* a lastSeen not earlier than t
ReportsOnlineSince(r, t) ==
    \E i \in 1..Len(req[r].written) :
        /\ Get(req[r].written[i], "storeId") = Watched
        /\ req[r].written[i]["status"] = "online"
        /\ req[r].written[i]["lastSeen"] >= t

(* C6, as claimed: once a register of store X stamped at t has been       *)
(* answered, every list answered later that evaluates at a now with       *)
(* now - t below the threshold reports X online and writes X back with    *)
(* lastSeen >= t, in every interleaving.                                  *)
C6_OnlineAfterRegister ==
    \A r \in Slots :
        (Wrote(r, "list") /\ regDone >= 0 /\ req[r].now - regDone < ThresholdMs(variant))
        => ReportsOnlineSince(r, regDone)

(* C6, amended: the same, in executions in which no request is accepted   *)
(* while another is in flight.                                            *)
C6_OnlineAfterRegisterSerial ==
    \A r \in Slots :
        (/\ ~overlapped
         /\ Wrote(r, "list") /\ regDone >= 0 /\ req[r].now - regDone < ThresholdMs(variant))
        => ReportsOnlineSince(r, regDone)

\* a list after an answered register of the watched store, within the threshold
C6_Witness ==
    \E r \in Slots :
        /\ ~overlapped
        /\ Wrote(r, "list") /\ regDone >= 0
        /\ req[r].now > regDone
        /\ req[r].now - regDone < ThresholdMs(variant)
        /\ ReportsOnlineSince(r, regDone)

----------------------------------------------------------------------------
(* Claims about the catalog *)

\* the records of a collection that are tagged with store id, in order
OfStore(products, id) == SelectSeq(products, LAMBDA p : Get(p, "storeId") = id)

\* a syncOne that has just written the products file
WroteSyncOne(r) == Wrote(r, "syncOne") /\ req[r].status = 200

\* a syncAll that has just written the products file for a store of its loop
WroteSyncAll(r) ==
    /\ req[r].op = "syncAll"
    /\ req[r].pc \in {"fetch", "respond"}
    /\ Has(req[r], "written")

(* C7, as claimed: for every store B other than A, the records tagged B   *)
(* that syncOne(A) writes are the records tagged B that the products file *)
(* held just before that write (what it would hold had syncOne(A) not     *)
(* run), also when a sync of B runs concurrently.                         *)
C7_OtherStoresUntouched ==
    \A r \in Slots :
        WroteSyncOne(r) =>
            \A b \in StoreIds \ {req[r].storeId} :
                OfStore(req[r].written, b) = OfStore(req[r].before, b)

(* C7, amended: for every store B other than A, the records tagged B that *)
(* syncOne(A) writes are, unchanged and in the same order, the records    *)
(* tagged B of the products file as syncOne(A) read it.                   *)
C7_OtherStoresAsRead ==
    \A r \in Slots :
        WroteSyncOne(r) =>
            \A b \in StoreIds \ {req[r].storeId} :
                OfStore(req[r].written, b) = OfStore(req[r].allProducts, b)

\* a syncOne that replaced its store's earlier products while another store's
\* products were in the catalog
C7_Witness ==
    \E r \in Slots :
        /\ WroteSyncOne(r)
        /\ OfStore(req[r].allProducts, req[r].storeId) # <<>>
        /\ \E b \in StoreIds \ {req[r].storeId} : OfStore(req[r].allProducts, b) # <<>>

(* C8: the catalog holds at most one generation per store: all records    *)
(* tagged with one storeId come from the same fetch, no record occurs     *)
(* twice, and what a successful sync of X writes holds, tagged X, exactly *)
(* the records that sync fetched.                                         *)
C8_OneGeneration ==
    /\ \A i, j \in 1..Len(productsFile) :
          /\ productsFile[i]["storeId"] = productsFile[j]["storeId"]
                 => productsFile[i]["rev"] = productsFile[j]["rev"]
          /\ i # j => productsFile[i] # productsFile[j]
    /\ \A r \in Slots :
          /\ WroteSyncOne(r) => OfStore(req[r].written, req[r].storeId) = req[r].products
          /\ WroteSyncAll(r) =>
                OfStore(req[r].written, req[r].log[Len(req[r].log)].storeId) = req[r].products

\* a sync that found an earlier generation of its store in the catalog
C8_Witness ==
    \E r \in Slots :
        /\ WroteSyncOne(r) \/ WroteSyncAll(r)
        /\ req[r].products # <<>>
        /\ \E i \in 1..Len(req[r].allProducts) :
              /\ req[r].allProducts[i]["storeId"] = req[r].products[1]["storeId"]
              /\ req[r].allProducts[i]["rev"] # req[r].products[1]["rev"]

RECURSIVE Ingested(_, _)
\* the number of products the first n entries of a syncAll log ingested
Ingested(log, n) ==
    IF n = 0 THEN 0
    ELSE Ingested(log, n - 1) + (IF log[n].ok THEN Len(log[n].products) ELSE 0)

(* C9: when syncAll answers, it has dealt with every store it selected;   *)
(* the products fetched from each store that did not fail are in the      *)
(* catalog, syncedStores is the number of those stores, totalProducts the *)
(* sum of the sizes of their fetched sets, and the answer is a success.   *)
(* (A run of syncAll during which no other request is in flight.)         *)
C9_SyncAllIsolatesFailures ==
    \A r \in Slots :
        (req[r].op = "syncAll" /\ req[r].pc = "respond") =>
            LET l == req[r]
                oks == {i \in 1..Len(l.log) : l.log[i].ok}
            IN  /\ Len(l.log) = Len(l.onlineStores)
                /\ \A i \in 1..Len(l.log) :
                      l.log[i].storeId = Get(l.onlineStores[i], "storeId")
                /\ \A i \in oks :
                      OfStore(productsFile, l.log[i].storeId) = l.log[i].products
                /\ SyncAllResponse(l).status = 200
                /\ SyncAllResponse(l).syncedStores = Cardinality(oks)
                /\ SyncAllResponse(l).totalProducts = Ingested(l.log, Len(l.log))

\* a syncAll whose first store failed and whose second store was synced
C9_Witness ==
    \E r \in Slots :
        /\ req[r].op = "syncAll" /\ req[r].pc = "respond"
        /\ Len(req[r].log) = 2
        /\ ~req[r].log[1].ok
        /\ req[r].log[2].ok
        /\ req[r].log[2].products # <<>>
        /\ req[r].syncedStores = 1

(* C10: the stores syncAll selects are exactly the stores that are online *)
(* at the time it runs: those with now - lastSeen below the threshold.    *)
C10_SyncAllSelectsLiveStores ==
    \A r \in Slots :
        req[r].op = "syncAll" =>
            \A i \in 1..Len(req[r].stores) :
                (\E j \in 1..Len(req[r].onlineStores) :
                     Get(req[r].onlineStores[j], "storeId") = Get(req[r].stores[i], "storeId"))
                <=> (req[r].now - req[r].stores[i]["lastSeen"]
                         < ThresholdMinutes(variant) * MsPerMinute)

----------------------------------------------------------------------------
(* The order relay *)

MaxOrderTicks == 2

\* `MAIN-ORD-${Date.now()}`
OrderId(now) == "MAIN-ORD-" \o ToString(now)

\* what JavaScript's !v, v || w and if (v) take for true, on the values used here
Truthy(v) == v # Undefined /\ v # ""

\* Routes that part_000 registers after its app.use('/api/*') catch-all never
\* see a request: the catch-all answers 404 first.
Routed(v, route) == ~(v = "p0" /\ route \in {"updateStatus", "listOrders"})

CreateOrderBodies ==
    { [storeId |-> "A", items |-> "i1", customer |-> "c1"],
      [storeId |-> "B", items |-> "i2", customer |-> "c2", orderId |-> "MINE",
       createdAt |-> 777, status |-> "shipped", storeName |-> "mine"],
      [storeId |-> "Z", items |-> "i1", customer |-> "c1"],
      [storeId |-> "A", customer |-> "c1"] }

\* a validation that lets everything through
CreateOrderValidLax(order) == TRUE

\* !( !order.storeId || !order.items || !order.customer )
CreateOrderValid(order) ==
    /\ Truthy(Get(order, "storeId"))
    /\ Truthy(Get(order, "items"))
    /\ Truthy(Get(order, "customer"))

\* a stamp that keeps what the caller sent
CreateOrderStampKeep(order, now) ==
    [k \in (DOMAIN order) \cup {"orderId", "createdAt", "status"} |->
        IF k \in DOMAIN order THEN order[k]
        ELSE CASE k = "orderId" -> OrderId(now)
               [] k = "createdAt" -> now
               [] OTHER -> "pending"]

\* order.orderId, order.createdAt and order.status assigned
CreateOrderStamp(order, now) ==
    Put(Put(Put(order, "orderId", OrderId(now)), "createdAt", now), "status", "pending")

\* order.storeName = store.name  (an undefined name is not serialised)
WithStoreName(order, store) ==
    IF Has(store, "name")
    THEN Put(order, "storeName", store["name"])
    ELSE [k \in (DOMAIN order) \ {"storeName"} |-> order[k]]

\* the request is accepted, validated and stamped
CreateOrderStart(r, body) ==
    /\ Accept(r)
    /\ req' = [req EXCEPT ![r] =
                  IF ~CreateOrderValid(body)
                  THEN [op |-> "createOrder", pc |-> "respond", status |-> 400, body |-> body]
                  ELSE [op |-> "createOrder", pc |-> "readStores", status |-> 201,
                        body |-> body, order |-> CreateOrderStamp(body, clock)]]
    /\ UNCHANGED <<orderVars, variant, limit, clock, ticks, storesFile, productsFile, fetchCount,
                   regDone, serial>>

CreateOrderReadStores(r) ==
    /\ req[r].op = "createOrder" /\ req[r].pc = "readStores"
    /\ LET l == req[r]
           id == l.order["storeId"]
       IN  req' = [req EXCEPT ![r] =
                      IF ~Found(storesFile, id)
                      THEN [op |-> "createOrder", pc |-> "respond", status |-> 404,
                            body |-> l.body, stores |-> storesFile]
                      ELSE [op |-> "createOrder", pc |-> "readOrders", status |-> 201,
                            body |-> l.body, stores |-> storesFile,
                            order |-> WithStoreName(l.order, Find(storesFile, id))]]
    /\ UNCHANGED <<orderVars, variant, limit, clock, ticks, started, storesFile, productsFile,
                   fetchCount, regDone, overlapped, serial>>

CreateOrderReadOrders(r) ==
    /\ req[r].op = "createOrder" /\ req[r].pc = "readOrders"
    /\ req' = [req EXCEPT ![r] = Put(Put(req[r], "orders", ordersFile), "pc", "write")]
    /\ UNCHANGED <<orderVars, variant, limit, clock, ticks, started, storesFile, productsFile,
                   fetchCount, regDone, overlapped, serial>>

\* orders.push(order); writeJSON.  before is history: the file as the write found it.
\* part_001 goes on to forward the order, the others answer.
CreateOrderWrite(r) ==
    /\ req[r].op = "createOrder" /\ req[r].pc = "write"
    /\ LET written == Append(req[r].orders, req[r].order)
       IN  /\ ordersFile' = written
           /\ req' = [req EXCEPT ![r] =
                         Put(Put(Put(req[r], "written", written), "before", ordersFile),
                             "pc", IF variant = "p1" THEN "forward" ELSE "respond")]
    /\ UNCHANGED <<forwards, variant, limit, clock, ticks, started, storesFile, productsFile,
                   fetchCount, regDone, overlapped, serial>>

\* how the store may settle the forwarded POST: response.ok, a non-success
\* status, or a rejected fetch
ForwardOutcomes == {"ok", "notOk", "throws"}

\* a handler that lets a failed forward fail the request
AfterForwardSurfaces(l, outcome) ==
    Put(Put(Put(l, "forwarded", outcome), "pc", "respond"),
        "status", IF outcome = "ok" THEN 201 ELSE 500)

\* the try/catch round the forward: whatever the outcome, on to res.status(201)
AfterForward(l, outcome) ==
    Put(Put(l, "forwarded", outcome), "pc", "respond")

\* part_001: fetch(`${store.url}/api/orders`, {method: 'POST', ...}) is issued
CreateOrderForward(r) ==
    /\ req[r].op = "createOrder" /\ req[r].pc = "forward"
    /\ forwards' = IF CanAnswer(Find(req[r].stores, req[r].order["storeId"]))
                   THEN forwards + 1 ELSE forwards
    /\ req' = [req EXCEPT ![r] = Put(req[r], "pc", "forwarding")]
    /\ UNCHANGED <<ordersFile, variant, limit, clock, ticks, started, storesFile, productsFile,
                   fetchCount, regDone, overlapped, serial>>

\* part_001: the awaited fetch settles, by the store's answer or by a rejection
CreateOrderForwardSettles(r) ==
    /\ req[r].op = "createOrder" /\ req[r].pc = "forwarding"
    /\ \E outcome \in ForwardOutcomes :
          /\ outcome = "throws" \/ CanAnswer(Find(req[r].stores, req[r].order["storeId"]))
          /\ req' = [req EXCEPT ![r] = AfterForward(req[r], outcome)]
    /\ UNCHANGED <<orderVars, variant, limit, clock, ticks, started, storesFile, productsFile,
                   fetchCount, regDone, overlapped, serial>>

CreateOrderResponse(l) ==
    CASE l.status = 201 -> [status |-> 201, success |-> TRUE, order |-> l.order]
      [] OTHER -> [status |-> l.status]

CreateOrderRespond(r) ==
    /\ req[r].op = "createOrder" /\ req[r].pc = "respond"
    /\ Release(r)
    /\ UNCHANGED <<orderVars, variant, limit, clock, ticks, started, storesFile, productsFile,
                   fetchCount, regDone, overlapped, serial>>

----------------------------------------------------------------------------
(* PUT /api/orders/:orderId/status  (part_000 and part_001) *)

UpdateIds == {OrderId(0), OrderId(1), "nope"}

UpdateBodies ==
    { [status |-> "shipped"],
      [status |-> "anything", notes |-> "n1"],
      [status |-> "pending", notes |-> ""] }

\* a findIndex that falls back on the last order
FindOrderIndexOrLast(orders, orderId) ==
    IF \E i \in 1..Len(orders) : Get(orders[i], "orderId") = orderId
    THEN (CHOOSE i \in 1..Len(orders) :
              /\ Get(orders[i], "orderId") = orderId
              /\ \A j \in 1..(i - 1) : Get(orders[j], "orderId") # orderId) - 1
    ELSE Len(orders) - 1

\* orders.findIndex(o => o.orderId === orderId): 0-based, -1 when there is none
FindOrderIndex(orders, orderId) ==
    IF \E i \in 1..Len(orders) : Get(orders[i], "orderId") = orderId
    THEN (CHOOSE i \in 1..Len(orders) :
              /\ Get(orders[i], "orderId") = orderId
              /\ \A j \in 1..(i - 1) : Get(orders[j], "orderId") # orderId) - 1
    ELSE -1

\* status, notes = notes || old notes, updatedAt assigned; an undefined notes is
\* not serialised
UpdatedOrder(order, body, now) ==
    LET notes == IF Truthy(Get(body, "notes")) THEN body["notes"] ELSE Get(order, "notes")
        o == Put(Put(order, "status", Get(body, "status")), "updatedAt", now)
    IN  IF notes = Undefined THEN o ELSE Put(o, "notes", notes)

\* the request is accepted, the orders file read and the order looked up
UpdateStatusRead(r, orderId, body) ==
    /\ variant \in {"p0", "p1"}
    /\ Accept(r)
    /\ LET orderIndex == FindOrderIndex(ordersFile, orderId)
       IN  req' = [req EXCEPT ![r] =
                      IF ~Routed(variant, "updateStatus")
                      THEN [op |-> "updateStatus", pc |-> "respond", status |-> 404,
                            orderId |-> orderId, body |-> body]
                      ELSE IF orderIndex = -1
                      THEN [op |-> "updateStatus", pc |-> "respond", status |-> 404,
                            orderId |-> orderId, body |-> body, orders |-> ordersFile]
                      ELSE [op |-> "updateStatus", pc |-> "write", status |-> 200,
                            orderId |-> orderId, body |-> body, orders |-> ordersFile,
                            orderIndex |-> orderIndex,
                            updated |-> SetAt(ordersFile, orderIndex,
                                              UpdatedOrder(ordersFile[orderIndex + 1],
                                                           body, clock))]]
    /\ UNCHANGED <<orderVars, variant, limit, clock, ticks, storesFile, productsFile, fetchCount,
                   regDone, serial>>

UpdateStatusWrite(r) ==
    /\ req[r].op = "updateStatus" /\ req[r].pc = "write"
    /\ ordersFile' = req[r].updated
    /\ req' = [req EXCEPT ![r] = Put(Put(req[r], "before", ordersFile), "pc", "respond")]
    /\ UNCHANGED <<forwards, variant, limit, clock, ticks, started, storesFile, productsFile,
                   fetchCount, regDone, overlapped, serial>>

UpdateStatusResponse(l) ==
    CASE l.status = 200 -> [status |-> 200, success |-> TRUE,
                            order |-> l.updated[l.orderIndex + 1]]
      [] OTHER -> [status |-> l.status]

UpdateStatusRespond(r) ==
    /\ req[r].op = "updateStatus" /\ req[r].pc = "respond"
    /\ Release(r)
    /\ UNCHANGED <<orderVars, variant, limit, clock, ticks, started, storesFile, productsFile,
                   fetchCount, regDone, overlapped, serial>>

----------------------------------------------------------------------------
(* GET /api/orders *)

OrderQueries ==
    { [x \in {} |-> ""],
      [storeId |-> "A"],
      [status |-> "all"],
      [status |-> "pending"],
      [storeId |-> "B", status |-> "shipped"] }

RECURSIVE SortNewestFirst(_)
\* orders.sort((a, b) => new Date(b.createdAt) - new Date(a.createdAt)): a stable
\* sort, so orders of one instant keep the order of the file
SortNewestFirst(orders) ==
    IF orders = <<>> THEN <<>>
    ELSE LET init == SortNewestFirst(SubSeq(orders, 1, Len(orders) - 1))
             x == orders[Len(orders)]
             k == Cardinality({i \in 1..Len(init) : init[i]["createdAt"] >= x["createdAt"]})
         IN  SubSeq(init, 1, k) \o <<x>> \o SubSeq(init, k + 1, Len(init))

\* the two filters of part_000 and part_001
FilterOrders(orders, query) ==
    LET byStore == IF Truthy(Get(query, "storeId"))
                   THEN SelectSeq(orders, LAMBDA o : Get(o, "storeId") = query["storeId"])
                   ELSE orders
    IN  IF Truthy(Get(query, "status")) /\ query["status"] # "all"
        THEN SelectSeq(byStore, LAMBDA o : Get(o, "status") = query["status"])
        ELSE byStore

\* what the route answers with: main-server.js returns the file as it is,
\* part_000's catch-all answers first, part_001 filters and sorts
ListOrdersResponse(v, orders, query) ==
    CASE v = "main" -> [status |-> 200, orders |-> orders]
      [] ~Routed(v, "listOrders") -> [status |-> 404, orders |-> <<>>]
      [] OTHER -> [status |-> 200, orders |-> SortNewestFirst(FilterOrders(orders, query))]

\* the request is accepted and the orders file read
ListOrdersRead(r, query) ==
    /\ Accept(r)
    /\ req' = [req EXCEPT ![r] =
                  [op |-> "listOrders", pc |-> "respond", query |-> query,
                   orders |-> IF Routed(variant, "listOrders") THEN ordersFile ELSE <<>>]]
    /\ UNCHANGED <<orderVars, variant, limit, clock, ticks, storesFile, productsFile, fetchCount,
                   regDone, serial>>

ListOrdersRespond(r) ==
    /\ req[r].op = "listOrders" /\ req[r].pc = "respond"
    /\ Release(r)
    /\ UNCHANGED <<orderVars, variant, limit, clock, ticks, started, storesFile, productsFile,
                   fetchCount, regDone, overlapped, serial>>

----------------------------------------------------------------------------
(* The order relay, with stores A and B registered when the clock read 0 *)

\* a millisecond passes
OrderTick ==
    /\ ticks < MaxOrderTicks
    /\ clock' = clock + 1
    /\ ticks' = ticks + 1
    /\ UNCHANGED <<orderVars, variant, limit, started, storesFile, productsFile, fetchCount,
                   req, regDone, overlapped, serial>>

OrderInit ==
    /\ InitCommon
    /\ storesFile = RegisteredStores(variant)
    /\ serial = FALSE
    /\ limit = MaxRequests

\* the steps the server takes by itself once a request is in
OrderSteps ==
    \/ \E r \in Slots : CreateOrderReadStores(r)
    \/ \E r \in Slots : CreateOrderReadOrders(r)
    \/ \E r \in Slots : CreateOrderWrite(r)
    \/ \E r \in Slots : CreateOrderForward(r)
    \/ \E r \in Slots : CreateOrderRespond(r)
    \/ \E r \in Slots : UpdateStatusWrite(r)
    \/ \E r \in Slots : UpdateStatusRespond(r)

\* creating and updating orders
OrderNext ==
    \/ \E r \in Slots, body \in CreateOrderBodies : CreateOrderStart(r, body)
    \/ \E r \in Slots : CreateOrderForwardSettles(r)
    \/ \E r \in Slots, orderId \in UpdateIds, body \in UpdateBodies :
          UpdateStatusRead(r, orderId, body)
    \/ OrderSteps

OrderSpec == OrderInit /\ [][OrderNext]_vars

\* the same with a client that sends one request at a time
OrderSeqInit ==
    /\ InitCommon
    /\ storesFile = RegisteredStores(variant)
    /\ serial = TRUE
    /\ limit = MaxSeqRequests

\* creating, updating and listing orders while the clock advances
OrderSeqNext ==
    \/ OrderNext
    \/ OrderTick
    \/ \E r \in Slots, query \in OrderQueries : ListOrdersRead(r, query)
    \/ \E r \in Slots : ListOrdersRespond(r)

OrderSeqSpec == OrderSeqInit /\ [][OrderSeqNext]_vars

\* The event loop runs every continuation that is ready: a step the server can
\* take by itself is taken.  Nothing makes a client send a request, the clock
\* tick, or a remote store answer.
OrderLiveSpec ==
    /\ OrderSeqInit /\ [][OrderSeqNext]_vars
    /\ WF_vars(OrderSteps)
    /\ WF_vars(\E r \in Slots : ListOrdersRespond(r))

(* C11: a syncOne for a storeId without a record answers 404 (and only    *)
(* then), one whose fetch throws or answers non-success answers 500, and  *)
(* no step of a syncOne up to such an answer changes the products file.   *)
C11_SyncOneFailsCleanly ==
    [][\A r \in Slots :
          (req'[r] # req[r] /\ req'[r].op = "syncOne") =>
              LET l == req'[r]
                  known == \E i \in 1..Len(storesFile) :
                               Get(storesFile[i], "storeId") = l.storeId
              IN  /\ req[r].op = "idle" =>
                        /\ (l.status = 404) <=> ~known
                        /\ l.pc = (IF known THEN "fetch" ELSE "respond")
                  /\ (req[r].op = "syncOne" /\ req[r].pc = "fetch" /\ l.pc = "respond")
                        => l.status = 500
                  /\ (l.pc = "fetch" \/ (l.pc = "respond" /\ l.status \in {404, 500}))
                        => productsFile' = productsFile]_vars

\* a syncOne whose fetch failed while the catalog held products of its store
C11_Witness ==
    \E r \in Slots :
        /\ req[r].op = "syncOne" /\ req[r].pc = "respond" /\ req[r].status = 500
        /\ OfStore(productsFile, req[r].storeId) # <<>>

----------------------------------------------------------------------------
(* Claims about the order relay *)

\* a create that has written the orders file
WroteOrder(r) ==
    /\ req[r].op = "createOrder"
    /\ req[r].pc \in {"forward", "forwarding", "respond"}
    /\ Has(req[r], "written")

(* C12: a create whose storeId has no record in the registry answers 404  *)
(* (and only then), and no step of a create up to that answer changes the *)
(* orders file or forwards anything.                                      *)
C12_CreateUnknownStore ==
    [][\A r \in Slots :
          (req'[r] # req[r] /\ req'[r].op = "createOrder") =>
              LET l == req'[r]
                  known == \E i \in 1..Len(storesFile) :
                               Get(storesFile[i], "storeId") = Get(l.body, "storeId")
              IN  /\ (req[r].op = "createOrder" /\ req[r].pc = "readStores") =>
                        /\ (l.status = 404) <=> ~known
                        /\ l.pc = (IF known THEN "readOrders" ELSE "respond")
                  /\ (l.pc = "readStores" \/ (l.pc = "respond" /\ l.status = 404))
                        => ordersFile' = ordersFile /\ forwards' = forwards]_vars

\* a create for an unknown store answered 404 while the collection held orders
C12_Witness ==
    \E r \in Slots :
        /\ req[r].op = "createOrder" /\ req[r].pc = "respond" /\ req[r].status = 404
        /\ ordersFile # <<>>

(* C13: a create that lacks storeId, items or customer answers 400 (and   *)
(* only then) in the run that accepted it: nothing has been read, the     *)
(* orders file is unchanged and nothing is forwarded.                     *)
C13_CreateValidates ==
    [][\A r \in Slots :
          (req[r].op = "idle" /\ req'[r].op = "createOrder") =>
              LET l == req'[r]
                  complete == {"storeId", "items", "customer"} \subseteq DOMAIN l.body
              IN  /\ (l.status = 400) <=> ~complete
                  /\ l.status = 400 =>
                        /\ l.pc = "respond"
                        /\ ~Has(l, "stores") /\ ~Has(l, "orders")
                        /\ ordersFile' = ordersFile /\ forwards' = forwards]_vars

\* a create without items, for a known store, answered 400
C13_Witness ==
    \E r \in Slots :
        /\ req[r].op = "createOrder" /\ req[r].pc = "respond" /\ req[r].status = 400
        /\ Found(storesFile, Get(req[r].body, "storeId"))
        /\ ordersFile # <<>>

(* C14: a successful create writes the orders file it found with exactly  *)
(* one record appended; that record has status pending, the orderId and   *)
(* createdAt the server made (whatever the body carried), and storeName   *)
(* the name of the registry record of its storeId.                        *)
C14_CreateAppends ==
    \A r \in Slots :
        WroteOrder(r) =>
            LET l == req[r]
                new == l.written[Len(l.written)]
            IN  /\ Len(l.written) = Len(l.before) + 1
                /\ \A i \in 1..Len(l.before) : l.written[i] = l.before[i]
                /\ new["status"] = "pending"
                /\ new["createdAt"] \in 0..clock
                /\ new["orderId"] = OrderId(new["createdAt"])
                /\ \A k \in {"storeId", "items", "customer"} : new[k] = l.body[k]
                /\ \E i \in 1..Len(l.stores) :
                      /\ Get(l.stores[i], "storeId") = new["storeId"]
                      /\ Get(new, "storeName") = Get(l.stores[i], "name")

\* a create whose body carried its own orderId, createdAt, status and storeName,
\* appended to a collection that held an order
C14_Witness ==
    \E r \in Slots :
        /\ WroteOrder(r)
        /\ Len(req[r].before) > 0
        /\ Has(req[r].body, "orderId") /\ Has(req[r].body, "createdAt")
        /\ Has(req[r].body, "status") /\ Has(req[r].body, "storeName")

(* C15: no two records of the orders file have the same orderId.          *)
C15_OrderIdUnique ==
    \A i, j \in 1..Len(ordersFile) :
        i # j => Get(ordersFile[i], "orderId") # Get(ordersFile[j], "orderId")

(* C16: an updateStatus whose orderId matches no record answers 404, and  *)
(* an updateStatus that answers 404 never changes the orders file.        *)
C16_UpdateUnknownOrder ==
    [][\A r \in Slots :
          (req'[r] # req[r] /\ req'[r].op = "updateStatus") =>
              LET l == req'[r]
                  known == \E i \in 1..Len(ordersFile) :
                               Get(ordersFile[i], "orderId") = l.orderId
              IN  /\ (req[r].op = "idle" /\ ~known) => (l.status = 404 /\ l.pc = "respond")
                  /\ l.status = 404 => ordersFile' = ordersFile]_vars

\* part_001's handler looked for an unknown orderId among existing orders
C16_Witness ==
    \E r \in Slots :
        /\ req[r].op = "updateStatus" /\ req[r].pc = "respond" /\ req[r].status = 404
        /\ Has(req[r], "orders") /\ req[r].orders # <<>>

\* 1-based position of the first order with this orderId, 0 if there is none
OrderPos(orders, orderId) ==
    LET hits == {i \in 1..Len(orders) : Get(orders[i], "orderId") = orderId}
    IN  IF hits = {} THEN 0 ELSE CHOOSE i \in hits : \A j \in hits : i <= j

(* C17: an updateStatus on a known orderId answers 200 and writes the     *)
(* file it found with that order's status set to the supplied value,      *)
(* notes set to the supplied notes when the body carries notes and kept   *)
(* otherwise, updatedAt stamped, every other field of that order and      *)
(* every other order unchanged.                                           *)
C17_UpdateStatusFrame ==
    \A r \in Slots :
        (/\ req[r].op = "updateStatus" /\ req[r].pc = "respond"
         /\ OrderPos(ordersFile, req[r].orderId) > 0)
        => /\ req[r].status = 200
           /\ LET l == req[r]
                  p == OrderPos(ordersFile, l.orderId)
                  old == l.before
                  new == ordersFile
                  touched == {"status", "notes", "updatedAt"}
              IN  /\ Len(new) = Len(old)
                  /\ \A i \in 1..Len(old) : i # p => new[i] = old[i]
                  /\ new[p]["status"] = l.body["status"]
                  /\ Get(new[p], "notes") = (IF Has(l.body, "notes") THEN l.body["notes"]
                                             ELSE Get(old[p], "notes"))
                  /\ Has(new[p], "updatedAt") /\ new[p]["updatedAt"] \in 0..clock
                  /\ DOMAIN new[p] \subseteq (DOMAIN old[p]) \cup touched
                  /\ \A k \in (DOMAIN old[p]) \ touched : new[p][k] = old[p][k]

\* how often a record occurs in a list
Count(seq, o) == Cardinality({i \in 1..Len(seq) : seq[i] = o})

\* the order passes every filter the query carries
Matches(o, query) ==
    /\ Has(query, "storeId") => Get(o, "storeId") = query["storeId"]
    /\ (Has(query, "status") /\ query["status"] # "all") => Get(o, "status") = query["status"]

(* C18: the order list answers 200 with exactly the orders of the file    *)
(* that pass every supplied filter, newest createdAt first.               *)
C18_ListOrders ==
    \A r \in Slots :
        (req[r].op = "listOrders" /\ req[r].pc = "respond") =>
            LET resp == ListOrdersResponse(variant, req[r].orders, req[r].query)
                all == {ordersFile[i] : i \in 1..Len(ordersFile)}
                          \cup {resp.orders[i] : i \in 1..Len(resp.orders)}
            IN  /\ resp.status = 200
                /\ \A o \in all :
                      Count(resp.orders, o) = (IF Matches(o, req[r].query)
                                               THEN Count(ordersFile, o) ELSE 0)
                /\ \A i, j \in 1..Len(resp.orders) :
                      i < j => resp.orders[i]["createdAt"] >= resp.orders[j]["createdAt"]

(* C19: when the forward of a created order throws or is answered with a  *)
(* non-success status, the order is in the orders file and the answer is  *)
(* 201 with the order.                                                    *)
C19_ForwardFailureKeepsOrder ==
    \A r \in Slots :
        (/\ req[r].op = "createOrder" /\ req[r].pc = "respond"
         /\ Has(req[r], "forwarded") /\ req[r].forwarded # "ok")
        => /\ \E i \in 1..Len(ordersFile) : ordersFile[i] = req[r].order
           /\ CreateOrderResponse(req[r]).status = 201
           /\ Get(CreateOrderResponse(req[r]), "order") = req[r].order

\* a forward that the store refused, and one that threw
C19_Witness ==
    \E r \in Slots :
        /\ req[r].op = "createOrder" /\ req[r].pc = "respond"
        /\ Has(req[r], "forwarded") /\ req[r].forwarded \in {"notOk", "throws"}
        /\ forwards > 0

(* C20: every create that passed validation and store lookup is           *)
(* eventually answered, whatever the origin store does with the forward,  *)
(* never answering included.                                              *)
C20_ForwardNeverBlocks ==
    \A r \in Slots :
        (req[r].op = "createOrder" /\ req[r].pc = "readOrders") ~> (req[r].op = "idle")

----------------------------------------------------------------------------
(* Further claims about the registry *)

\* the watched store has a record in the stores file
WatchedPresent == \E i \in 1..Len(storesFile) : Get(storesFile[i], "storeId") = Watched

(* C22, as claimed: once a registration of store X has been answered, the *)
(* stores file holds a record of X in every later state, whatever list,   *)
(* register and manualAdd requests interleave.                            *)
C22_StoreNeverRemoved == regDone >= 0 => WatchedPresent

(* C22, amended: the same, in executions in which no request is accepted  *)
(* while another is in flight.                                            *)
C22_StoreNeverRemovedSerial == (~overlapped /\ regDone >= 0) => WatchedPresent

\* a list found the registered store offline and wrote its record back
C22_Witness ==
    \E r \in Slots :
        /\ ~overlapped /\ regDone >= 0
        /\ Wrote(r, "list")
        /\ \E i \in 1..Len(storesFile) :
              /\ Get(storesFile[i], "storeId") = Watched
              /\ storesFile[i]["status"] = "offline"

(* C24: the store in register's answer is field for field the record      *)
(* persisted for its storeId, and totalStores is the number of records    *)
(* persisted.                                                             *)
C24_RegisterReturnsMerged ==
    \A r \in Slots :
        Wrote(r, "register") =>
            LET resp == RegisterResponse(variant, req[r])
                p == IF PosOf(r) > 0 THEN PosOf(r) ELSE Len(req[r].written)
            IN  /\ resp.store = req[r].written[p]
                /\ Has(resp, "totalStores")
                /\ resp.totalStores = Len(req[r].written)

(* C25: register never persists a record that lacks storeId or name.      *)
C25_RegisterValidates ==
    \A i \in 1..Len(storesFile) :
        Has(storesFile[i], "storeId") /\ Has(storesFile[i], "name")

----------------------------------------------------------------------------
(* The order relay under concurrent requests while the clock advances,    *)
(* with stores A and B registered and one order created when the clock    *)
(* read 0                                                                 *)

FirstOrder(v) ==
    WithStoreName(CreateOrderStamp([storeId |-> "A", items |-> "i1", customer |-> "c1"], 0),
                  Find(RegisteredStores(v), "A"))

OrderRaceInit ==
    /\ variant \in Variants
    /\ clock = 0
    /\ ticks = 0
    /\ started = 0
    /\ storesFile = RegisteredStores(variant)
    /\ productsFile = <<>>
    /\ fetchCount = 0
    /\ ordersFile = <<FirstOrder(variant)>>
    /\ forwards = 0
    /\ req = [r \in Slots |-> Idle]
    /\ regDone = -1
    /\ overlapped = FALSE
    /\ serial = FALSE
    /\ limit = MaxRequests

RaceOrderBodies ==
    { [storeId |-> "A", items |-> "i1", customer |-> "c1"],
      [storeId |-> "B", items |-> "i2", customer |-> "c2", orderId |-> "MINE",
       createdAt |-> 777, status |-> "shipped", storeName |-> "mine"] }

OrderRaceNext ==
    \/ \E r \in Slots, body \in RaceOrderBodies : CreateOrderStart(r, body)
    \/ \E r \in Slots : CreateOrderForwardSettles(r)
    \/ \E r \in Slots, orderId \in {OrderId(0), OrderId(1)} :
          UpdateStatusRead(r, orderId, [status |-> "shipped"])
    \/ OrderSteps
    \/ OrderTick

OrderRaceSpec == OrderRaceInit /\ [][OrderRaceNext]_vars

\* a create for this orderId has not been answered yet
CreateInFlight(orderId) ==
    \E r \in Slots :
        /\ req[r].op = "createOrder"
        /\ Has(req[r], "order")
        /\ req[r].order["orderId"] = orderId

(* C21, as claimed: once the create of an order has been answered, every  *)
(* later orders file holds a record with its orderId, whatever create and *)
(* updateStatus requests interleave.                                      *)
C21_OrdersNeverDeleted ==
    [][\A i \in 1..Len(ordersFile) :
          ~CreateInFlight(ordersFile[i]["orderId"])
          => OrderPos(ordersFile', ordersFile[i]["orderId"]) > 0]_vars

(* C21, amended: in executions in which no request is accepted while      *)
(* another is in flight, no step removes an orderId from the orders file. *)
C21_OrdersNeverDeletedSerial ==
    [][~overlapped' =>
          \A i \in 1..Len(ordersFile) :
              OrderPos(ordersFile', ordersFile[i]["orderId"]) > 0]_vars

\* an update written after a later create, both orders in the file
C21_Witness ==
    \E r \in Slots :
        /\ ~overlapped
        /\ req[r].op = "updateStatus" /\ req[r].pc = "respond" /\ req[r].status = 200
        /\ Len(ordersFile) = 2
        /\ ordersFile[1]["orderId"] # ordersFile[2]["orderId"]

\* the orders that no updateStatus has written are pending
UntouchedArePending ==
    \A i \in 1..Len(ordersFile) :
        ~Has(ordersFile[i], "updatedAt") => Get(ordersFile[i], "status") = "pending"

\* this step changes the status of a persisted order only by writing the
\* result of an updateStatus on that order
StatusChangesByUpdateOnly ==
    \A i \in 1..Len(ordersFile) :
        ( /\ i <= Len(ordersFile')
          /\ Get(ordersFile'[i], "orderId") = Get(ordersFile[i], "orderId")
          /\ Get(ordersFile'[i], "status") # Get(ordersFile[i], "status") )
        => \E r \in Slots :
              /\ req[r].op = "updateStatus" /\ req[r].pc = "write"
              /\ req'[r].pc = "respond"
              /\ req[r].orderId = Get(ordersFile[i], "orderId")

(* C28, as claimed: in every reachable state an order that no successful  *)
(* updateStatus has targeted has status pending, and the status of a      *)
(* persisted order changes only in the write of an updateStatus on it.    *)
C28_PendingIsInitial ==
    []UntouchedArePending /\ [][StatusChangesByUpdateOnly]_vars

(* C28, amended: an order that no updateStatus has written has status     *)
(* pending in every reachable state; in executions in which no request is *)
(* accepted while another is in flight, the status of a persisted order   *)
(* changes only in the write of an updateStatus on it.                    *)
C28_PendingIsInitialSerial ==
    []UntouchedArePending /\ [][~overlapped' => StatusChangesByUpdateOnly]_vars

\* a shipped order keeps its status through the create of a later order
C28_Witness ==
    /\ ~overlapped
    /\ Len(ordersFile) = 2
    /\ Get(ordersFile[1], "status") = "shipped" /\ Has(ordersFile[1], "updatedAt")
    /\ Get(ordersFile[2], "status") = "pending"
    /\ \E r \in Slots : WroteOrder(r) /\ req[r].pc = "respond" /\ req[r].status = 201

(* C29: while a syncAll runs with no other request in flight, a step      *)
(* changes the catalog records tagged with a storeId only when it writes  *)
(* the products just fetched from that store: a store whose fetch threw   *)
(* or answered non-success keeps the products it had, and a store synced  *)
(* earlier in the run keeps what the run ingested for it.                 *)
C29_SyncAllKeepsOthers ==
    [][\A r \in Slots :
          req[r].op = "syncAll" =>
              \A id \in StoreIds :
                  OfStore(productsFile', id) # OfStore(productsFile, id) =>
                      /\ req[r].pc = "write"
                      /\ id = Get(req[r].onlineStores[req[r].idx], "storeId")
                      /\ OfStore(productsFile', id) = req[r].products]_vars

\* a syncAll that ingested its first store and failed on its second, which
\* still has the products an earlier sync gave it
C29_Witness ==
    \E r \in Slots :
        /\ req[r].op = "syncAll" /\ req[r].pc = "respond"
        /\ Len(req[r].log) = 2
        /\ req[r].log[1].ok /\ req[r].log[1].products # <<>>
        /\ OfStore(productsFile, req[r].log[1].storeId) = req[r].log[1].products
        /\ ~req[r].log[2].ok
        /\ OfStore(productsFile, req[r].log[2].storeId) # <<>>

----------------------------------------------------------------------------
(* Registrations and syncs under concurrent requests, from an empty       *)
(* registry or from one that holds stores A and B                         *)

RaceRegisterBodies == {b \in RegisterBodies : Has(b, "storeId") /\ ~Has(b, "extra")}

RaceInit ==
    /\ InitCommon
    /\ storesFile \in {<<>>, RegisteredStores(variant)}
    /\ serial = FALSE
    /\ limit = MaxRequests

RaceNext ==
    \/ \E r \in Slots, body \in RaceRegisterBodies : RegisterStart(r, body)
    \/ \E r \in Slots : RegisterRead(r)
    \/ \E r \in Slots : RegisterWrite(r)
    \/ \E r \in Slots : RegisterRespond(r)
    \/ \E r \in Slots, id \in StoreIds : SyncOneReadStores(r, id)
    \/ \E r \in Slots : SyncOneFetchFails(r)
    \/ \E r \in Slots : SyncOneFetch(r)
    \/ \E r \in Slots : SyncOneReadProducts(r)
    \/ \E r \in Slots : SyncOneWrite(r)
    \/ \E r \in Slots : SyncOneRespond(r)

RaceSpec == RaceInit /\ [][RaceNext]_vars

\* two registrations of distinct new storeIds that have both written the
\* stores file, each from the snapshot it read before the other wrote
RegisterRace(r1, r2) ==
    /\ r1 # r2
    /\ Wrote(r1, "register") /\ Wrote(r2, "register")
    /\ Get(req[r1].storeInfo, "storeId") # Get(req[r2].storeInfo, "storeId")
    /\ req[r1].stores = req[r2].stores
    /\ ~Found(req[r1].stores, Get(req[r1].storeInfo, "storeId"))
    /\ ~Found(req[r1].stores, Get(req[r2].storeInfo, "storeId"))

\* two syncs of distinct stores that have both written the products file
\* from the same snapshot, r2 after r1
SyncRace(r1, r2) ==
    /\ r1 # r2
    /\ WroteSyncOne(r1) /\ WroteSyncOne(r2)
    /\ req[r1].storeId # req[r2].storeId
    /\ req[r1].allProducts = req[r2].allProducts
    /\ OfStore(req[r1].allProducts, req[r1].storeId) = <<>>
    /\ OfStore(req[r1].allProducts, req[r2].storeId) = <<>>
    /\ req[r1].products # <<>>
    /\ req[r2].before = req[r1].written

(* C27: when two registrations of distinct new storeIds have each read    *)
(* the stores file before the other wrote it, both answer success and the *)
(* stores file is what the last writer wrote: the snapshot plus its own   *)
(* record, without the record of the other; likewise the products file    *)
(* after two syncs of distinct stores holds the products of the last      *)
(* writer and none of the other.                                          *)
C27_LostUpdate ==
    /\ \A r1, r2 \in Slots :
          RegisterRace(r1, r2) =>
              /\ RegisterResponse(variant, req[r1]).status = 200
              /\ RegisterResponse(variant, req[r2]).status = 200
              /\ \E last \in {r1, r2} :
                    /\ storesFile = req[last].written
                    /\ Len(storesFile) = Len(req[last].stores) + 1
                    /\ Found(storesFile, Get(req[last].storeInfo, "storeId"))
                    /\ \A lost \in {r1, r2} \ {last} :
                          ~Found(storesFile, Get(req[lost].storeInfo, "storeId"))
    /\ \A r1, r2 \in Slots :
          SyncRace(r1, r2) =>
              /\ SyncOneResponse(req[r1]).status = 200
              /\ SyncOneResponse(req[r2]).status = 200
              /\ productsFile = req[r2].written
              /\ OfStore(productsFile, req[r2].storeId) = req[r2].products
              /\ OfStore(productsFile, req[r1].storeId) = <<>>

\* two registrations raced on the empty registry and one record is left
C27_Witness ==
    \E r1, r2 \in Slots : RegisterRace(r1, r2) /\ req[r1].stores = <<>> /\ Len(storesFile) = 1

\* two syncs raced and the products of the first writer are gone
SyncRaceReached == \E r1, r2 \in Slots : SyncRace(r1, r2)

----------------------------------------------------------------------------
(* The registry and the creation of orders under concurrent requests,     *)
(* from an empty registry                                                 *)

RelayOrderBodies ==
    { [storeId |-> "A", items |-> "i1", customer |-> "c1"],
      [storeId |-> "Z", items |-> "i1", customer |-> "c1"] }

RelayInit ==
    /\ InitCommon
    /\ storesFile = <<>>
    /\ serial = FALSE
    /\ limit = MaxRelayRequests

RelayNext ==
    \/ \E r \in Slots, body \in RaceRegisterBodies : RegisterStart(r, body)
    \/ \E r \in Slots : RegisterRead(r)
    \/ \E r \in Slots : RegisterWrite(r)
    \/ \E r \in Slots : RegisterRespond(r)
    \/ \E r \in Slots, body \in ManualAddBodies : ManualAddStart(r, body)
    \/ \E r \in Slots : ManualAddRead(r)
    \/ \E r \in Slots : ManualAddWrite(r)
    \/ \E r \in Slots : ManualAddRespond(r)
    \/ \E r \in Slots : ListRead(r)
    \/ \E r \in Slots : ListCompute(r)
    \/ \E r \in Slots : ListWrite(r)
    \/ \E r \in Slots : ListRespond(r)
    \/ \E r \in Slots, body \in RelayOrderBodies : CreateOrderStart(r, body)
    \/ \E r \in Slots : CreateOrderReadStores(r)
    \/ \E r \in Slots : CreateOrderReadOrders(r)
    \/ \E r \in Slots : CreateOrderWrite(r)
    \/ \E r \in Slots : CreateOrderForward(r)
    \/ \E r \in Slots : CreateOrderForwardSettles(r)
    \/ \E r \in Slots : CreateOrderRespond(r)

RelaySpec == RelayInit /\ [][RelayNext]_vars

\* the stores file holds a record for the store of every order
OrdersReferToStores ==
    \A i \in 1..Len(ordersFile) : Found(storesFile, Get(ordersFile[i], "storeId"))

(* C26, as claimed: in every reachable state, whatever register,          *)
(* manualAdd, list and create requests interleave, the stores file holds  *)
(* a record for the storeId of every order in the orders file.            *)
C26_OrdersReferToStores == OrdersReferToStores

(* C26, amended: in executions in which no request is accepted while      *)
(* another is in flight, the stores file holds a record for the storeId   *)
(* of every order in the orders file.                                     *)
C26_OrdersReferToStoresSerial == ~overlapped => OrdersReferToStores

\* an order for store A is in the file and a later request has written the
\* stores file
C26_Witness ==
    /\ ~overlapped
    /\ ordersFile # <<>>
    /\ \E r \in Slots :
          /\ req[r].op \in {"register", "list", "manualAdd"} /\ req[r].pc = "respond"
          /\ storesFile = req[r].written

----------------------------------------------------------------------------
(* The routes that only read: GET /api/products, GET /api/categories and  *)
(* GET /api/debug/stores                                                  *)

UpperCase == "ABCDEFGHIJKLMNOPQRSTUVWXYZ"
LowerCase == "abcdefghijklmnopqrstuvwxyz"

\* one character of String.prototype.toLowerCase()
LowerChar(c) ==
    LET hits == {i \in 1..Len(UpperCase) : SubSeq(UpperCase, i, i) = c}
    IN  IF hits = {} THEN c ELSE LET i == CHOOSE i \in hits : TRUE IN SubSeq(LowerCase, i, i)

RECURSIVE ToLowerCase(_)
\* String.prototype.toLowerCase()
ToLowerCase(str) ==
    IF Len(str) = 0 THEN ""
    ELSE LowerChar(SubSeq(str, 1, 1)) \o ToLowerCase(SubSeq(str, 2, Len(str)))

\* String.prototype.includes(): needle occurs in hay
Includes(hay, needle) ==
    \E i \in 0..(Len(hay) - Len(needle)) : SubSeq(hay, i + 1, i + Len(needle)) = needle

\* req.query of GET /api/products
ProductQueries ==
    { [x \in {} |-> ""],
      [storeId |-> "A"],
      [category |-> "all"],
      [category |-> "hats"],
      [search |-> "shirt"],
      [search |-> "HAT"],
      [storeId |-> "B", category |-> "clothing", search |-> "blue"] }

\* the three filters of part_001
FilterProducts(products, query) ==
    LET byStore == IF Truthy(Get(query, "storeId"))
                   THEN SelectSeq(products, LAMBDA p : Get(p, "storeId") = query["storeId"])
                   ELSE products
        byCategory == IF Truthy(Get(query, "category")) /\ query["category"] # "all"
                      THEN SelectSeq(byStore, LAMBDA p : Get(p, "category") = query["category"])
                      ELSE byStore
    IN  IF Truthy(Get(query, "search"))
        THEN LET searchTerm == ToLowerCase(query["search"])
             IN  SelectSeq(byCategory,
                           LAMBDA p : \/ Includes(ToLowerCase(p["name"]), searchTerm)
                                      \/ Includes(ToLowerCase(p["category"]), searchTerm))
        ELSE byCategory

\* what the route answers with: main-server.js and part_000 return the file
\* as it is, part_001 filters
ProductListResponse(v, products, query) ==
    CASE v = "p1" -> [status |-> 200, products |-> FilterProducts(products, query)]
      [] OTHER    -> [status |-> 200, products |-> products]

\* the request is accepted and the products file read
ProductListRead(r, query) ==
    /\ Accept(r)
    /\ req' = [req EXCEPT ![r] =
                  [op |-> "productList", pc |-> "respond", query |-> query,
                   products |-> productsFile]]
    /\ UNCHANGED <<orderVars, variant, limit, clock, ticks, storesFile, productsFile, fetchCount,
                   regDone, serial>>

\* a product list that saves what it answers with
ProductListRespondSaving(r) ==
    /\ req[r].op = "productList" /\ req[r].pc = "respond"
    /\ productsFile' = FilterProducts(req[r].products, req[r].query)
    /\ Release(r)
    /\ UNCHANGED <<orderVars, variant, limit, clock, ticks, started, storesFile, fetchCount,
                   regDone, overlapped, serial>>

ProductListRespond(r) ==
    /\ req[r].op = "productList" /\ req[r].pc = "respond"
    /\ Release(r)
    /\ UNCHANGED <<orderVars, variant, limit, clock, ticks, started, storesFile, productsFile,
                   fetchCount, regDone, overlapped, serial>>

RECURSIVE Distinct(_)
\* [...new Set(seq)]: the first occurrence of each value, in order
Distinct(seq) ==
    IF seq = <<>> THEN <<>>
    ELSE LET init == Distinct(SubSeq(seq, 1, Len(seq) - 1))
             x == seq[Len(seq)]
         IN  IF \E i \in 1..Len(init) : init[i] = x THEN init ELSE Append(init, x)

\* products.map(p => p.category).filter(Boolean), without repetition
CategoriesOf(products) ==
    Distinct(SelectSeq([i \in 1..Len(products) |-> Get(products[i], "category")], Truthy))

\* GET /api/categories  (part_000 and part_001)
CategoriesRead(r) ==
    /\ variant \in {"p0", "p1"}
    /\ Accept(r)
    /\ req' = [req EXCEPT ![r] =
                  [op |-> "categories", pc |-> "respond", products |-> productsFile]]
    /\ UNCHANGED <<orderVars, variant, limit, clock, ticks, storesFile, productsFile, fetchCount,
                   regDone, serial>>

CategoriesResponse(l) == [status |-> 200, categories |-> CategoriesOf(l.products)]

CategoriesRespond(r) ==
    /\ req[r].op = "categories" /\ req[r].pc = "respond"
    /\ Release(r)
    /\ UNCHANGED <<orderVars, variant, limit, clock, ticks, started, storesFile, productsFile,
                   fetchCount, regDone, overlapped, serial>>

\* the body of stores.map in GET /api/debug/stores
WithStatus(v, now, store) ==
    LET s == Put(Put(store, "status", StatusOf(v, now, store["lastSeen"])),
                 "minutesSinceLastSeen", FloorMinutes(now, store["lastSeen"]))
    IN  IF v = "p0" THEN Put(s, "server", "replit") ELSE s

\* the request is accepted, the stores file read and Date.now() taken
DebugStoresRead(r) ==
    /\ Accept(r)
    /\ req' = [req EXCEPT ![r] =
                  [op |-> "debugStores", pc |-> "respond", stores |-> storesFile,
                   now |-> clock]]
    /\ UNCHANGED <<orderVars, variant, limit, clock, ticks, storesFile, productsFile, fetchCount,
                   regDone, serial>>

DebugStoresResponse(v, l) ==
    LET storesWithStatus == [i \in 1..Len(l.stores) |-> WithStatus(v, l.now, l.stores[i])]
    IN  [status |-> 200,
         totalStores |-> Len(storesWithStatus),
         onlineStores |-> Len(SelectSeq(storesWithStatus, LAMBDA s : s["status"] = "online")),
         stores |-> storesWithStatus]

DebugStoresRespond(r) ==
    /\ req[r].op = "debugStores" /\ req[r].pc = "respond"
    /\ Release(r)
    /\ UNCHANGED <<orderVars, variant, limit, clock, ticks, started, storesFile, productsFile,
                   fetchCount, regDone, overlapped, serial>>

\* The catalog and its listing with a client that sends one request at a time
ProductInit ==
    /\ InitCommon
    /\ storesFile = RegisteredStores(variant)
    /\ serial = TRUE
    /\ limit = MaxRelayRequests

ProductNext ==
    \/ \E r \in Slots, id \in StoreIds : SyncOneReadStores(r, id)
    \/ \E r \in Slots : SyncOneFetchFails(r)
    \/ \E r \in Slots : SyncOneFetch(r)
    \/ \E r \in Slots : SyncOneReadProducts(r)
    \/ \E r \in Slots : SyncOneWrite(r)
    \/ \E r \in Slots : SyncOneRespond(r)
    \/ \E r \in Slots, query \in ProductQueries : ProductListRead(r, query)
    \/ \E r \in Slots : ProductListRespond(r)
    \/ \E r \in Slots : CategoriesRead(r)
    \/ \E r \in Slots : CategoriesRespond(r)

ProductSpec == ProductInit /\ [][ProductNext]_vars

\* the product passes every filter the query carries
MatchesProduct(p, query) ==
    /\ Has(query, "storeId") => Get(p, "storeId") = query["storeId"]
    /\ (Has(query, "category") /\ query["category"] # "all")
           => Get(p, "category") = query["category"]
    /\ Has(query, "search")
           => \/ Includes(ToLowerCase(p["name"]), ToLowerCase(query["search"]))
              \/ Includes(ToLowerCase(p["category"]), ToLowerCase(query["search"]))

(* C23: the product list answers with exactly the catalog records that    *)
(* pass every supplied filter (storeId, category unless "all", search as  *)
(* a case-insensitive substring of name or category), in catalog order.   *)
C23_ProductList ==
    \A r \in Slots :
        (req[r].op = "productList" /\ req[r].pc = "respond") =>
            LET resp == ProductListResponse(variant, req[r].products, req[r].query)
            IN  /\ resp.status = 200
                /\ resp.products = SelectSeq(req[r].products,
                                             LAMBDA p : MatchesProduct(p, req[r].query))

----------------------------------------------------------------------------
(* Every route of the server, one request at a time, with stores A and B  *)
(* registered                                                             *)

FrameInit ==
    /\ InitCommon
    /\ storesFile = RegisteredStores(variant)
    /\ serial = TRUE
    /\ limit = MaxRelayRequests

FrameNext ==
    \/ \E r \in Slots :
          RegisterStart(r, [storeId |-> "A", name |-> "n2", url |-> "http://a", extra |-> "x1"])
    \/ \E r \in Slots : RegisterRead(r)
    \/ \E r \in Slots : RegisterWrite(r)
    \/ \E r \in Slots : RegisterRespond(r)
    \/ \E r \in Slots, body \in ManualAddBodies : ManualAddStart(r, body)
    \/ \E r \in Slots : ManualAddRead(r)
    \/ \E r \in Slots : ManualAddWrite(r)
    \/ \E r \in Slots : ManualAddRespond(r)
    \/ \E r \in Slots : ListRead(r)
    \/ \E r \in Slots : ListCompute(r)
    \/ \E r \in Slots : ListWrite(r)
    \/ \E r \in Slots : ListRespond(r)
    \/ \E r \in Slots : SyncOneReadStores(r, "A")
    \/ \E r \in Slots : SyncOneFetchFails(r)
    \/ \E r \in Slots : SyncOneFetch(r)
    \/ \E r \in Slots : SyncOneReadProducts(r)
    \/ \E r \in Slots : SyncOneWrite(r)
    \/ \E r \in Slots : SyncOneRespond(r)
    \/ \E r \in Slots : SyncAllReadStores(r)
    \/ \E r \in Slots : SyncAllFetchFails(r)
    \/ \E r \in Slots : SyncAllFetch(r)
    \/ \E r \in Slots : SyncAllReadProducts(r)
    \/ \E r \in Slots : SyncAllWrite(r)
    \/ \E r \in Slots : SyncAllRespond(r)
    \/ \E r \in Slots :
          CreateOrderStart(r, [storeId |-> "A", items |-> "i1", customer |-> "c1"])
    \/ \E r \in Slots : CreateOrderForwardSettles(r)
    \/ \E r \in Slots : UpdateStatusRead(r, OrderId(0), [status |-> "shipped"])
    \/ OrderSteps
    \/ \E r \in Slots : ListOrdersRead(r, [status |-> "pending"])
    \/ \E r \in Slots : ListOrdersRespond(r)
    \/ \E r \in Slots : ProductListRead(r, [category |-> "hats"])
    \/ \E r \in Slots : ProductListRespond(r)
    \/ \E r \in Slots : CategoriesRead(r)
    \/ \E r \in Slots : CategoriesRespond(r)
    \/ \E r \in Slots : DebugStoresRead(r)
    \/ \E r \in Slots : DebugStoresRespond(r)

FrameSpec == FrameInit /\ [][FrameNext]_vars

StoreOps == {"register", "manualAdd", "list"}
CatalogOps == {"syncOne", "syncAll"}
OrderOps == {"createOrder", "updateStatus"}
ReadOnlyOps == {"productList", "categories", "listOrders", "debugStores"}

\* the operation of the request whose handler runs in this step
StepOp(r) == IF req[r].op = "idle" THEN req'[r].op ELSE req[r].op

(* C30: a step of register, manualAdd or store list changes no file but   *)
(* the stores file, a step of syncOne or syncAll none but the products    *)
(* file, a step of order create or updateStatus none but the orders file, *)
(* and a step of product list, categories, order list or the debug store  *)
(* listing changes no file at all.                                        *)
C30_CollectionsIndependent ==
    [][/\ \A r \in Slots :
             req'[r] # req[r] =>
                 /\ StepOp(r) \in StoreOps \cup CatalogOps \cup OrderOps \cup ReadOnlyOps
                 /\ StepOp(r) \notin StoreOps => storesFile' = storesFile
                 /\ StepOp(r) \notin CatalogOps => productsFile' = productsFile
                 /\ StepOp(r) \notin OrderOps => ordersFile' = ordersFile
       /\ (req' = req) =>
             /\ storesFile' = storesFile
             /\ productsFile' = productsFile
             /\ ordersFile' = ordersFile]_vars

\* a product list about to answer while the three files hold records
C30_Witness ==
    \E r \in Slots :
        /\ req[r].op = "productList" /\ req[r].pc = "respond"
        /\ storesFile # <<>>
        /\ Len(productsFile) = 2
        /\ ordersFile # <<>>

----------------------------------------------------------------------------
(* Reads that fail: fs.readFile rejects or JSON.parse throws, and         *)
(* readJSON answers [] from its catch block                               *)

ReadOutcomes == {"ok", "fails"}

\* a readJSON that gets the contents whatever the outcome
ReadJSONAlways(file, outcome) == file

\* readJSON(file): the parsed contents, or [] when the read failed
ReadJSON(file, outcome) == IF outcome = "ok" THEN file ELSE <<>>

\* lost is history: the file the failed read did not get
RegisterReadFails(r) ==
    /\ req[r].op = "register" /\ req[r].pc = "read"
    /\ req' = [req EXCEPT ![r] =
                  Put(Put(Put(req[r], "stores", ReadJSON(storesFile, "fails")),
                          "lost", storesFile), "pc", "write")]
    /\ UNCHANGED <<orderVars, variant, limit, clock, ticks, started, storesFile, productsFile,
                   fetchCount, regDone, overlapped, serial>>

ManualAddReadFails(r) ==
    /\ req[r].op = "manualAdd" /\ req[r].pc = "read"
    /\ req' = [req EXCEPT ![r] =
                  Put(Put(Put(req[r], "stores", ReadJSON(storesFile, "fails")),
                          "lost", storesFile), "pc", "write")]
    /\ UNCHANGED <<orderVars, variant, limit, clock, ticks, started, storesFile, productsFile,
                   fetchCount, regDone, overlapped, serial>>

\* the stores read of a create fails: no store is found
CreateOrderReadStoresFails(r) ==
    /\ req[r].op = "createOrder" /\ req[r].pc = "readStores"
    /\ LET stores == ReadJSON(storesFile, "fails")
       IN  req' = [req EXCEPT ![r] =
                      IF ~Found(stores, req[r].order["storeId"])
                      THEN [op |-> "createOrder", pc |-> "respond", status |-> 404,
                            body |-> req[r].body, stores |-> stores]
                      ELSE [op |-> "createOrder", pc |-> "readOrders", status |-> 201,
                            body |-> req[r].body, stores |-> stores,
                            order |-> WithStoreName(req[r].order,
                                                    Find(stores, req[r].order["storeId"]))]]
    /\ UNCHANGED <<orderVars, variant, limit, clock, ticks, started, storesFile, productsFile,
                   fetchCount, regDone, overlapped, serial>>

CreateOrderReadOrdersFails(r) ==
    /\ req[r].op = "createOrder" /\ req[r].pc = "readOrders"
    /\ req' = [req EXCEPT ![r] =
                  Put(Put(Put(req[r], "orders", ReadJSON(ordersFile, "fails")),
                          "lost", ordersFile), "pc", "write")]
    /\ UNCHANGED <<orderVars, variant, limit, clock, ticks, started, storesFile, productsFile,
                   fetchCount, regDone, overlapped, serial>>

\* Stores A and B registered and one order persisted; one request at a time
FaultInit ==
    /\ variant \in Variants
    /\ clock = 0
    /\ ticks = 0
    /\ started = 0
    /\ storesFile = RegisteredStores(variant)
    /\ productsFile = <<>>
    /\ fetchCount = 0
    /\ ordersFile = <<FirstOrder(variant)>>
    /\ forwards = 0
    /\ req = [r \in Slots |-> Idle]
    /\ regDone = -1
    /\ overlapped = FALSE
    /\ serial = TRUE
    /\ limit = MaxRelayRequests

FaultNext ==
    \/ \E r \in Slots, body \in RaceRegisterBodies : RegisterStart(r, body)
    \/ \E r \in Slots : RegisterRead(r)
    \/ \E r \in Slots : RegisterReadFails(r)
    \/ \E r \in Slots : RegisterWrite(r)
    \/ \E r \in Slots : RegisterRespond(r)
    \/ \E r \in Slots, body \in ManualAddBodies : ManualAddStart(r, body)
    \/ \E r \in Slots : ManualAddRead(r)
    \/ \E r \in Slots : ManualAddReadFails(r)
    \/ \E r \in Slots : ManualAddWrite(r)
    \/ \E r \in Slots : ManualAddRespond(r)
    \/ \E r \in Slots, body \in RaceOrderBodies : CreateOrderStart(r, body)
    \/ \E r \in Slots : CreateOrderReadStores(r)
    \/ \E r \in Slots : CreateOrderReadStoresFails(r)
    \/ \E r \in Slots : CreateOrderReadOrders(r)
    \/ \E r \in Slots : CreateOrderReadOrdersFails(r)
    \/ \E r \in Slots : CreateOrderWrite(r)
    \/ \E r \in Slots : CreateOrderForward(r)
    \/ \E r \in Slots : CreateOrderForwardSettles(r)
    \/ \E r \in Slots : CreateOrderRespond(r)

FaultSpec == FaultInit /\ [][FaultNext]_vars

(* C31: when the read of the stores file failed during a register or a    *)
(* manualAdd, the request answers success and the stores file it leaves   *)
(* holds exactly the record of that request; when the read of the orders  *)
(* file failed during a create, the create answers success and the orders *)
(* file it leaves holds only the new order.                               *)
C31_FailedReadIsEmpty ==
    \A r \in Slots :
        /\ (Wrote(r, "register") /\ Has(req[r], "lost")) =>
              /\ storesFile = <<req[r].storeInfo>>
              /\ RegisterResponse(variant, req[r]).status = 200
        /\ (Wrote(r, "manualAdd") /\ Has(req[r], "lost")) =>
              /\ storesFile = <<req[r].storeInfo>>
              /\ ManualAddResponse(req[r]).status = 200
        /\ (WroteOrder(r) /\ Has(req[r], "lost")) =>
              /\ ordersFile = <<req[r].order>>
              /\ req[r].pc = "respond" => CreateOrderResponse(req[r]).status = 201

\* a register whose read failed has left one store of two, after a create
\* whose read failed had left its order alone in the orders file
C31_Witness ==
    \E r \in Slots :
        /\ Wrote(r, "register") /\ Has(req[r], "lost")
        /\ Len(req[r].lost) = 2
        /\ Len(storesFile) = 1
        /\ \E i \in 1..2 : ~Found(storesFile, Get(req[r].lost[i], "storeId"))
        /\ Len(ordersFile) = 1
        /\ ordersFile[1] # FirstOrder(variant)

====
